---- MODULE Spec2Model ----
(***************************************************************************)
(* Model of the Executive Layer (ExL) speaker service.                     *)
(*                                                                         *)
(* The orchestrator part models one client request going through           *)
(* app.post('/v1/chat/completions') and handleChatRequest of               *)
(* src/speaker/server.js (the second, current copy of the service, lines   *)
(* 1047-1988): the Speaker stream consumer loop, the chain of Executive    *)
(* evaluations (axios.post to /evaluate) and the SSE writes to res.        *)
(*                                                                         *)
(* Strings are modelled as ropes: a string is a sequence of pieces         *)
(* [k, id, len]; piece k = "spk" is the text of Speaker delta number id,   *)
(* len its length in characters.  Concatenation is \o and the length of a  *)
(* string is the sum of the lengths of its pieces.                         *)
(***************************************************************************)
EXTENDS Integers, Sequences, FiniteSets, TLC

\* ------------------------------------------------------------------ bounds
\* Largest number of deltas the Speaker stream yields in one request.
MaxDeltas == 3

\* ---------------------------------------------------------------- constants
\* The re-evaluation stride of the forward loop (speakerOutput.length % 100).
REEVAL_STRIDE == 100

\* The shapes of the chunks the Speaker yields: the size (in characters) of
\* chunk.content, 0 for a chunk without content, and whether the chunk has
\* tool_call_chunks.  60 + 60 steps over a multiple of the stride, 100 lands
\* on one.
DeltaShapes ==
    { [size |-> 0, tool |-> FALSE], [size |-> 0, tool |-> TRUE],
      [size |-> 60, tool |-> FALSE], [size |-> 100, tool |-> FALSE] }

\* What one call of the Executive's /evaluate can come to: HTTP 200 with the
\* evaluation's action, or a failure (network error, HTTP 4xx/5xx).
EvaluateOutcomes == {"none", "interrupt", "fail"}

VARIABLES
    stream,                     \* request option stream
    isJsonMode,                 \* response_format.type === 'json_object'
    include_executive_thinking, \* request option
    DEBUG,                      \* process.env.DEBUG === 'true'
    pc,                         \* position of handleChatRequest
    llmStream,                  \* the deltas the Speaker has yielded so far
    speakerFailed,              \* the Speaker threw
    speakerOutput,              \* accumulated Speaker text
    jsonCollectedContent,       \* text collected for JSON mode
    isInterrupted,
    hasExecutiveInterrupted,
    tasks,                      \* the /evaluate calls made for this request
    executivePromise,           \* index in tasks of the promise the handler holds
    res,                        \* what has been written to the response
    writableEnded,              \* res.end() was called
    response,                   \* the res.json body of a non-streaming answer
    \* the surroundings of the request
    clientConnected,            \* the client's connection is open
    elapsed,                    \* time the handler has spent waiting, in ticks
    messagesHaveAssistant,      \* the request's messages hold an assistant message
    writing,                    \* evaluations whose updateKnowledgeGraph is running
    written,                    \* evaluations whose updateKnowledgeGraph has returned
    \* the knowledge graph behind Neo4jManager
    nodes,                      \* the nodes stored
    edges,                      \* the relationships stored, in creation order
    nextId,                     \* the id Neo4j gives the next node
    lastCall,                   \* the last Neo4jManager call made
    lastResult,                 \* what it returned or threw
    schema,                     \* the constraints and indexes of the database
    embeddingDimension,         \* this.embeddingDimension of the manager
    vectorSupported,            \* whether the database can create vector indexes
    \* the /evaluate handler of the Executive
    evaluations,                \* the handler invocations: evaluation decided, writeback
    \* the thread store of ThreadManager (SQLite)
    db,                         \* the tables threads, messages, progress_documents
    now,                        \* Date.now(), in ticks
    foreignKeys,                \* PRAGMA foreign_keys of the connection
    txn,                        \* the transaction open on the connection, if any
    calls,                      \* the ThreadManager calls in flight
    \* the streaming handler of the API bridge
    bridge                      \* handleChatCompletion: its locals and the response

\* The variables of the orchestrator's surroundings and of the graph.
threadVars == << db, now, foreignKeys, txn, calls >>
otherVars == << evaluations, threadVars, bridge >>
surroundings == << clientConnected, elapsed, messagesHaveAssistant, writing, written >>
env == << surroundings, otherVars >>
graphVars == << nodes, edges, nextId, lastCall, lastResult, schema,
               embeddingDimension, vectorSupported >>

orchVars == << stream, isJsonMode, include_executive_thinking, DEBUG, pc,
               llmStream, speakerFailed, speakerOutput, jsonCollectedContent,
               isInterrupted, hasExecutiveInterrupted, tasks, executivePromise,
               res, writableEnded, response >>

vars == << orchVars, env, graphVars >>

\* ------------------------------------------------------------------ strings
RECURSIVE StrLen(_)
StrLen(s) == IF s = << >> THEN 0 ELSE Head(s).len + StrLen(Tail(s))

Piece(k, id, len) == [k |-> k, id |-> id, len |-> len]

\* chunk.content of the delta number i with the given size
DeltaContent(i, size) == IF size = 0 THEN << >> ELSE << Piece("spk", i, size) >>

\* `\n\n[Executive Interruption: ${knowledge_document}]`, with the DEBUG prefix
\* when DEBUG is set; t is the evaluation whose document it carries.
InterruptionContent(t) ==
    IF DEBUG
    THEN << Piece("debug_interruption", t, 1), Piece("interruption", t, 1) >>
    ELSE << Piece("interruption", t, 1) >>

\* Variant: the error chunk carries no message.
ErrorContent_NoMessage == << >>

\* `\n\nError: ${error.message}`
ErrorContent == << Piece("error", 0, 1) >>

\* `[DEBUG] User Query: ${userQuery}\n\n`
DebugContent == << Piece("debug_query", 0, 1) >>

\* JSON.stringify(jsonContent) / JSON.stringify({error: ..., content: ...})
JsonContent(parsed, raw) ==
    IF parsed THEN << Piece("json", 0, StrLen(raw)) >>
    ELSE << Piece("json_error", 0, StrLen(raw)) >>

\* --------------------------------------------------------------- SSE events
\* One write to res.  g holds history only (not part of the bytes written):
\* the evaluation the write comes from, the number of evaluations spawned
\* and the number of deltas received when it was written.
Ghost(t, spawned, at, final) ==
    [task |-> t, spawned |-> spawned, at |-> at, final |-> final]
NoGhost == Ghost(0, 0, 0, FALSE)

Event(role, content, tool_calls, thinking, finish_reason, g) ==
    [sentinel |-> FALSE, role |-> role, content |-> content,
     tool_calls |-> tool_calls, thinking |-> thinking,
     finish_reason |-> finish_reason, g |-> g]

InitialEvent == Event(TRUE, << >>, FALSE, 0, "null", NoGhost)
DebugQueryEvent == Event(FALSE, DebugContent, FALSE, 0, "null", NoGhost)
ThinkingEvent(t, g) == Event(FALSE, << >>, FALSE, t, "null", g)
InterruptionEvent(t, g) == Event(FALSE, InterruptionContent(t), FALSE, 0, "null", g)
JsonEvent(parsed, raw, g) == Event(FALSE, JsonContent(parsed, raw), FALSE, 0, "null", g)
FinalEvent(g) == Event(FALSE, << >>, FALSE, 0, "stop", g)
\* Variant: the error chunk is written with finish_reason null.
ErrorEvent_NoFinish(g) == Event(FALSE, ErrorContent, FALSE, 0, "null", g)
ErrorEvent(g) == Event(FALSE, ErrorContent, FALSE, 0, "stop", g)
DoneSentinel(g) ==
    [sentinel |-> TRUE, role |-> FALSE, content |-> << >>, tool_calls |-> FALSE,
     thinking |-> 0, finish_reason |-> "null", g |-> g]

isJsonStreaming == isJsonMode /\ stream

\* chunkEvent built from a Speaker chunk
ChunkEvent(chunk, g) ==
    Event(FALSE,
          IF chunk.content # << >> /\ ~isJsonStreaming THEN chunk.content ELSE << >>,
          chunk.tool_call_chunks, 0, "null", g)

\* ------------------------------------------------------ Executive evaluations
\* axios.post(`${EXECUTIVE_URL}/evaluate`, {..., speaker_output}): a pending
\* promise for an evaluation of the given Speaker output.
NewTask(out) ==
    [speaker_output |-> out, status |-> "pending", action |-> "",
     reason |-> FALSE, outcome |-> ""]

\* Variant: no catch handler, the promise of a failed evaluation rejects.
CatchHandler_Rethrow(task) ==
    [task EXCEPT !.status = "rejected", !.action = "", !.reason = FALSE,
                 !.outcome = "fail"]

\* .catch(error => ({ data: { action: 'none', knowledge_document: '' } })):
\* what the promise of a failed evaluation settles to.
CatchHandler(task) ==
    [task EXCEPT !.status = "fulfilled", !.action = "none", !.reason = FALSE,
                 !.outcome = "fail"]

\* The promise settles: with the evaluation returned by /evaluate (which
\* always carries a reason, see evaluateSpeaker), or through the catch handler.
Settle(task, o) ==
    IF o = "fail" THEN CatchHandler(task)
    ELSE [task EXCEPT !.status = "fulfilled", !.action = o, !.reason = TRUE,
                      !.outcome = o]

\* speakerOutput.length > 0 && speakerOutput.length % 100 === 0
ShouldReevaluate(out) == StrLen(out) > 0 /\ StrLen(out) % REEVAL_STRIDE = 0

\* Variant: isInterrupted is left set after the interruption.
AfterInterruption_Stuck == TRUE

\* The value of isInterrupted after the interruption has been written
\* ("Continue with the speaker after interruption": isInterrupted = false).
AfterInterruption == FALSE

\* !isInterrupted && (!isJsonStreaming || !chunk.content)
ShouldForward(isInt, chunk) ==
    ~isInt /\ (~isJsonStreaming \/ chunk.content = << >>)

\* Variants: the final check forgets the flag; the final check is never made.
FinalCheckGuard_NoFlag(hasInt) == executivePromise # 0
FinalCheckGuard_Never(hasInt) == FALSE

\* The guard of the final check: executivePromise && !hasExecutiveInterrupted
FinalCheckGuard(hasInt) == executivePromise # 0 /\ ~hasInt

\* Variant: the handler races the promise it held before the reassignment.
PolledPromise_Previous ==
    IF executivePromise > 1 THEN executivePromise - 1 ELSE executivePromise

\* The promise the forward loop races and the final check awaits.
PolledPromise == executivePromise

\* The events written for a consumed verdict of evaluation t: the thinking
\* event when asked for, then the interruption when the action is interrupt.
VerdictEvents(t, g) ==
    (IF include_executive_thinking /\ tasks[t].reason
        THEN << ThinkingEvent(t, g) >> ELSE << >>)
    \o (IF tasks[t].action = "interrupt"
        THEN << InterruptionEvent(t, g) >> ELSE << >>)

\* History of the events written once the loop is over.
EndGhost == Ghost(0, Len(tasks), Len(llmStream), TRUE)

\* Variant: the chunk is forwarded before the verdict is applied.
IterationWrites_ChunkFirst(verdictEvents, chunkEvents) == chunkEvents \o verdictEvents

\* The writes of one loop iteration, in the order of the code: what the
\* consumed verdict produces (lines 1604-1651), then the chunk (1657-1659).
IterationWrites(verdictEvents, chunkEvents) == verdictEvents \o chunkEvents

\* The end of the try block: the JSON chunk in JSON mode, the final event,
\* the sentinel, res.end().
Terminate(pre, parsed) ==
    /\ res' = res \o pre
              \o (IF isJsonStreaming /\ jsonCollectedContent # << >>
                  THEN << JsonEvent(parsed, jsonCollectedContent, EndGhost) >> ELSE << >>)
              \o << FinalEvent(EndGhost), DoneSentinel(EndGhost) >>
    /\ writableEnded' = TRUE
    /\ pc' = "done"

\* Variant: the catch block ends the response without the sentinel.
StreamError_NoSentinel(g) ==
    /\ IF ~writableEnded
       THEN /\ res' = res \o << ErrorEvent(g) >>
            /\ writableEnded' = TRUE
       ELSE UNCHANGED << res, writableEnded >>
    /\ pc' = "done"

\* The catch block of the streaming branch.
StreamError(g) ==
    /\ IF ~writableEnded
       THEN /\ res' = res \o << ErrorEvent(g), DoneSentinel(g) >>
            /\ writableEnded' = TRUE
       ELSE UNCHANGED << res, writableEnded >>
    /\ pc' = "done"

\* -------------------------------------------------------------------- Init
\* The state at the call of handleChatRequest: the request options are
\* fixed and the initial evaluation (speaker_output: '') is in flight.
OrchInit ==
    /\ stream \in BOOLEAN
    /\ isJsonMode \in BOOLEAN
    /\ include_executive_thinking \in BOOLEAN
    /\ DEBUG \in BOOLEAN
    /\ pc = "start"
    /\ llmStream = << >>
    /\ speakerFailed = FALSE
    /\ speakerOutput = << >>
    /\ jsonCollectedContent = << >>
    /\ isInterrupted = FALSE
    /\ hasExecutiveInterrupted = FALSE
    /\ tasks = << NewTask(<< >>) >>
    /\ executivePromise = 1
    /\ res = << >>
    /\ writableEnded = FALSE
    /\ response = [status |-> 0, content |-> << >>, thinking |-> 0,
                   finish_reason |-> "null"]

\* No request is being served (the state of the orchestrator in the
\* specifications of the graph).
OrchIdle ==
    /\ stream = FALSE /\ isJsonMode = FALSE
    /\ include_executive_thinking = FALSE /\ DEBUG = FALSE
    /\ pc = "idle"
    /\ llmStream = << >> /\ speakerFailed = FALSE
    /\ speakerOutput = << >> /\ jsonCollectedContent = << >>
    /\ isInterrupted = FALSE /\ hasExecutiveInterrupted = FALSE
    /\ tasks = << >> /\ executivePromise = 0
    /\ res = << >> /\ writableEnded = FALSE
    /\ response = [status |-> 0, content |-> << >>, thinking |-> 0,
                   finish_reason |-> "null"]

\* The surroundings at the call of handleChatRequest: the client is
\* connected, no time has passed, no evaluation has reached its writeback.
\* No /evaluate handler has been entered.
EvaluateIdle == evaluations = {}

\* An empty thread store, as initialize() leaves it on a new file, with no
\* call in flight.
EmptyDb == [threads |-> {}, messages |-> {}, progress_documents |-> {}, seq |-> 0]
NoTransaction == [active |-> FALSE, saved |-> EmptyDb]
ThreadsIdle ==
    /\ db = EmptyDb
    /\ now = 0
    /\ foreignKeys = FALSE
    /\ txn = NoTransaction
    /\ calls = << >>

\* No request at the API bridge.
BridgeIdle == bridge = [pc |-> "idle"]

OtherIdle == EvaluateIdle /\ ThreadsIdle /\ BridgeIdle

EnvInit ==
    /\ clientConnected = TRUE
    /\ elapsed = 0
    /\ messagesHaveAssistant = TRUE
    /\ writing = {} /\ written = {}
    /\ OtherIdle

\* ---------------------------------------------------- database schema
\* options.vector.dimensions of createVectorIndex.
VECTOR_DIMENSIONS == 384

\* The default of the constructor's embeddingDimension.
DEFAULT_EMBEDDING_DIMENSION == 384

SchemaObject(kind, name, label, property, dim) ==
    [kind |-> kind, name |-> name, label |-> label, property |-> property,
     dim |-> dim]

\* The statements of initializeSchema, in their order: the constraints, the
\* indexes, and the vector indexes of indexesToCreate.
SchemaConstraints ==
    << SchemaObject("constraint", "topic_name", "Topic", "name", 0),
       SchemaObject("constraint", "knowledge_id", "Knowledge", "id", 0),
       SchemaObject("constraint", "tag_category_name", "TagCategory", "name", 0),
       SchemaObject("constraint", "tag_name", "Tag", "name", 0) >>
SchemaIndexes ==
    << SchemaObject("index", "topic_name_idx", "Topic", "name", 0),
       SchemaObject("index", "knowledge_id_idx", "Knowledge", "id", 0),
       SchemaObject("index", "tag_category_name_idx", "TagCategory", "name", 0),
       SchemaObject("index", "tag_name_idx", "Tag", "name", 0) >>
\* indexName = `${label.toLowerCase()}_${property}_idx`
VectorIndexName(label) ==
    CASE label = "Topic" -> "topic_embedding_idx"
      [] label = "Knowledge" -> "knowledge_embedding_idx"
      [] label = "Tag" -> "tag_embedding_idx"
      [] label = "TagCategory" -> "tagcategory_embedding_idx"
\* createVectorIndex(label, 'embedding')
VectorIndex(label) ==
    SchemaObject("vector", VectorIndexName(label), label, "embedding",
                 VECTOR_DIMENSIONS)
SchemaVectorIndexes ==
    << VectorIndex("Topic"), VectorIndex("Knowledge"), VectorIndex("Tag"),
       VectorIndex("TagCategory") >>

Range(f) == { f[i] : i \in DOMAIN f }

\* The schema a run of initializeSchema leaves on an empty database that
\* supports vector indexes.
InitializedSchema ==
    Range(SchemaConstraints) \cup Range(SchemaIndexes) \cup Range(SchemaVectorIndexes)

\* The graph after initializeSchema, before any node is created, with the
\* default embedding dimension.
GraphInit ==
    /\ nodes = {}
    /\ edges = << >>
    /\ nextId = 0
    /\ lastCall = [op |-> "none"]
    /\ lastResult = [status |-> "none", id |-> 0]
    /\ schema = InitializedSchema
    /\ embeddingDimension = DEFAULT_EMBEDDING_DIMENSION
    /\ vectorSupported = TRUE

Init == OrchInit /\ EnvInit /\ GraphInit

params == << stream, isJsonMode, include_executive_thinking, DEBUG >>

\* ----------------------------------------------------------------- actions
\* An /evaluate call of this request completes while the request is being
\* served (a completion after the response has ended is seen by nobody).
ExecutiveSettle(t, o) ==
    /\ pc # "done"
    /\ t \in 1..Len(tasks)
    /\ tasks[t].status = "pending"
    /\ tasks' = [tasks EXCEPT ![t] = Settle(@, o)]
    /\ UNCHANGED << env, graphVars, params, pc, llmStream, speakerFailed, speakerOutput,
                    jsonCollectedContent, isInterrupted, hasExecutiveInterrupted,
                    executivePromise, res, writableEnded, response >>

\* The SSE headers, the initial role event and the debug echo.
StartStream ==
    /\ stream /\ pc = "start"
    /\ res' = res \o << InitialEvent >>
              \o (IF DEBUG THEN << DebugQueryEvent >> ELSE << >>)
    /\ pc' = "loop"
    /\ UNCHANGED << env, graphVars, params, llmStream, speakerFailed, speakerOutput,
                    jsonCollectedContent, isInterrupted, hasExecutiveInterrupted,
                    tasks, executivePromise, writableEnded, response >>

\* One iteration of the for await loop up to the non-blocking check: the
\* Speaker yields a chunk, it is accumulated, and a new evaluation is
\* requested when the length is a multiple of the stride.  When the check is
\* skipped the chunk is forwarded at once.
ReceiveDelta(size, tool) ==
    /\ stream /\ pc = "loop"
    /\ Len(llmStream) < MaxDeltas
    /\ LET i == Len(llmStream) + 1
           chunk == [content |-> DeltaContent(i, size), tool_call_chunks |-> tool]
           out == speakerOutput \o chunk.content
       IN  /\ llmStream' = Append(llmStream, chunk)
           /\ speakerOutput' = out
           /\ jsonCollectedContent' =
                 IF isJsonStreaming THEN jsonCollectedContent \o chunk.content
                 ELSE jsonCollectedContent
           /\ IF executivePromise # 0 /\ ~isInterrupted /\ ~hasExecutiveInterrupted
              THEN /\ IF ShouldReevaluate(out)
                      THEN /\ tasks' = Append(tasks, NewTask(out))
                           /\ executivePromise' = Len(tasks) + 1
                      ELSE UNCHANGED << tasks, executivePromise >>
                   /\ pc' = "race"
                   /\ UNCHANGED res
              ELSE /\ res' = res \o (IF ShouldForward(isInterrupted, chunk)
                                     THEN << ChunkEvent(chunk, Ghost(0, Len(tasks), i, FALSE)) >>
                                     ELSE << >>)
                   /\ UNCHANGED << tasks, executivePromise, pc >>
    /\ UNCHANGED << env, graphVars, params, speakerFailed, isInterrupted, hasExecutiveInterrupted,
                    writableEnded, response >>

\* The rest of the iteration: Promise.race of executivePromise with a
\* zero timeout, the consumption of a verdict that is there, and the
\* forwarding of the chunk.
PollVerdict ==
    /\ pc = "race"
    /\ LET t == PolledPromise
           chunk == llmStream[Len(llmStream)]
           g == Ghost(t, Len(tasks), Len(llmStream), FALSE)
           g0 == Ghost(0, Len(tasks), Len(llmStream), FALSE)
       IN  CASE tasks[t].status = "pending" ->
                  /\ res' = res \o (IF ShouldForward(isInterrupted, chunk)
                                    THEN << ChunkEvent(chunk, g0) >> ELSE << >>)
                  /\ pc' = "loop"
                  /\ UNCHANGED << isInterrupted, hasExecutiveInterrupted, writableEnded >>
            [] tasks[t].status = "rejected" ->
                  /\ StreamError(g)
                  /\ UNCHANGED << isInterrupted, hasExecutiveInterrupted >>
            [] OTHER ->
                  LET interrupt == tasks[t].action = "interrupt"
                      isInt == IF interrupt THEN AfterInterruption ELSE isInterrupted
                  IN  /\ res' = res \o IterationWrites(VerdictEvents(t, g),
                                           IF ShouldForward(isInt, chunk)
                                           THEN << ChunkEvent(chunk, g0) >> ELSE << >>)
                      /\ isInterrupted' = isInt
                      /\ hasExecutiveInterrupted' = (hasExecutiveInterrupted \/ interrupt)
                      /\ pc' = "loop"
                      /\ UNCHANGED writableEnded
    /\ UNCHANGED << env, graphVars, params, llmStream, speakerFailed, speakerOutput,
                    jsonCollectedContent, tasks, executivePromise, response >>

\* configuredLLM.stream or the iteration of llmStream throws.
SpeakerFailed ==
    /\ stream /\ pc = "loop"
    /\ speakerFailed' = TRUE
    /\ StreamError(Ghost(0, Len(tasks), Len(llmStream), FALSE))
    /\ UNCHANGED << env, graphVars, params, llmStream, speakerOutput, jsonCollectedContent,
                    isInterrupted, hasExecutiveInterrupted, tasks,
                    executivePromise, response >>

\* The Speaker stream ends.  With the final check skipped the handler runs
\* to res.end() without suspending.
SpeakerEnd ==
    /\ stream /\ pc = "loop"
    /\ IF FinalCheckGuard(hasExecutiveInterrupted)
       THEN /\ pc' = "final"
            /\ UNCHANGED << res, writableEnded >>
       ELSE \E parsed \in BOOLEAN :
                Terminate(<< >>, parsed)
    /\ UNCHANGED << env, graphVars, params, llmStream, speakerFailed, speakerOutput,
                    jsonCollectedContent, isInterrupted, hasExecutiveInterrupted,
                    tasks, executivePromise, response >>

\* The final check: await executivePromise, apply the verdict, terminate.
FinalVerdict ==
    /\ pc = "final"
    /\ LET t == PolledPromise
           g == Ghost(t, Len(tasks), Len(llmStream), TRUE)
       IN  /\ tasks[t].status # "pending"
           /\ \E parsed \in BOOLEAN :
                Terminate(IF tasks[t].status = "rejected" THEN << >>
                          ELSE VerdictEvents(t, g), parsed)
           /\ hasExecutiveInterrupted' =
                 (hasExecutiveInterrupted
                    \/ (tasks[t].status = "fulfilled" /\ tasks[t].action = "interrupt"))
    /\ UNCHANGED << env, graphVars, params, llmStream, speakerFailed, speakerOutput,
                    jsonCollectedContent, isInterrupted, tasks,
                    executivePromise, response >>

\* ------------------------------------------------------ non-streaming branch
ServerError == [status |-> 500, content |-> << >>, thinking |-> 0,
                finish_reason |-> "null"]

\* configuredLLM.invoke returns; the evaluation of the whole output is
\* requested.
InvokeDone(size, tool) ==
    /\ ~stream /\ pc = "start"
    /\ LET chunk == [content |-> DeltaContent(1, size), tool_call_chunks |-> tool]
       IN  /\ llmStream' = << chunk >>
           /\ speakerOutput' = chunk.content
           /\ tasks' = Append(tasks, NewTask(chunk.content))
    /\ pc' = "evaluate"
    /\ UNCHANGED << env, graphVars, params, speakerFailed, jsonCollectedContent, isInterrupted,
                    hasExecutiveInterrupted, executivePromise, res,
                    writableEnded, response >>

\* configuredLLM.invoke throws.
InvokeFailed ==
    /\ ~stream /\ pc = "start"
    /\ speakerFailed' = TRUE
    /\ response' = ServerError
    /\ pc' = "done"
    /\ UNCHANGED << env, graphVars, params, llmStream, speakerOutput, jsonCollectedContent,
                    isInterrupted, hasExecutiveInterrupted, tasks,
                    executivePromise, res, writableEnded >>

\* Variant: the handler awaits the executivePromise handed to it.
AwaitedEvaluation_Initial == executivePromise

\* The evaluation the non-streaming branch awaits and applies: the one it
\* has just requested (const executiveResponse = await axios.post(...)), not
\* the executivePromise of the options.
AwaitedEvaluation == Len(tasks)

\* The awaited evaluation is there: the response object is composed and sent.
ComposeResponse ==
    /\ pc = "evaluate"
    /\ LET t == AwaitedEvaluation
           chunk == llmStream[1]
       IN  /\ tasks[t].status # "pending"
           /\ IF tasks[t].status = "rejected"
              THEN response' = ServerError
              ELSE \E parsed \in BOOLEAN :
                    LET content == IF isJsonMode THEN JsonContent(parsed, speakerOutput)
                                   ELSE speakerOutput
                        shown == IF ~DEBUG THEN content
                                 ELSE IF isJsonMode
                                      THEN << Piece("debug_json", 0, StrLen(content)) >>
                                      ELSE DebugContent \o content
                    IN  response' =
                          [status |-> 200,
                           content |-> shown \o (IF tasks[t].action = "interrupt"
                                                 THEN InterruptionContent(t) ELSE << >>),
                           thinking |-> IF include_executive_thinking /\ tasks[t].reason
                                        THEN t ELSE 0,
                           finish_reason |-> IF chunk.tool_call_chunks
                                             THEN "tool_calls" ELSE "stop"]
    /\ pc' = "done"
    /\ UNCHANGED << env, graphVars, params, llmStream, speakerFailed, speakerOutput,
                    jsonCollectedContent, isInterrupted, hasExecutiveInterrupted,
                    tasks, executivePromise, res, writableEnded >>

Next ==
    \/ \E t \in 1..(MaxDeltas + 1), o \in EvaluateOutcomes : ExecutiveSettle(t, o)
    \/ StartStream
    \/ \E d \in DeltaShapes : ReceiveDelta(d.size, d.tool)
    \/ PollVerdict
    \/ SpeakerFailed
    \/ SpeakerEnd
    \/ FinalVerdict
    \/ \E d \in DeltaShapes : InvokeDone(d.size, d.tool)
    \/ InvokeFailed
    \/ ComposeResponse

Spec == Init /\ [][Next]_vars

\* ------------------------------------------------------ client disconnect
\* The client closes the connection while the streaming response is being
\* written.  handleChatRequest registers no listener on req or res (no
\* 'close' handler, no abort signal handed to the Speaker or to axios), so
\* nothing of the handler's state changes.
ClientDisconnect ==
    /\ stream /\ pc \in {"loop", "race", "final"}
    /\ clientConnected
    /\ clientConnected' = FALSE
    /\ UNCHANGED << orchVars, graphVars, otherVars, elapsed, messagesHaveAssistant,
                    writing, written >>

NextDisconnect == Next \/ ClientDisconnect

SpecDisconnect == Init /\ [][NextDisconnect]_vars

\* ------------------------------------------------------------ elapsed time
\* The per-request timeout, in ticks of the clock.
TimeoutTicks == 2

\* Time passes while the streaming handler is suspended: at the await of
\* configuredLLM.stream, at the for await over llmStream, or at the await
\* of executivePromise in the final check.  handleChatRequest starts no
\* timer (no setTimeout besides the zero-delay one of the poll, no timeout
\* option on axios.post or on the Speaker), so the passing of time changes
\* nothing of its state.  The clock is followed up to one tick past the
\* timeout.
Tick ==
    /\ stream /\ pc \in {"start", "loop", "final"}
    /\ elapsed <= TimeoutTicks
    /\ elapsed' = elapsed + 1
    /\ UNCHANGED << orchVars, graphVars, otherVars, clientConnected, messagesHaveAssistant,
                    writing, written >>

\* One streaming request, with the clock.
TimedInit ==
    /\ Init
    /\ stream /\ ~isJsonMode /\ ~include_executive_thinking /\ ~DEBUG

NextTimed ==
    \/ \E t \in 1..(MaxDeltas + 1), o \in EvaluateOutcomes : ExecutiveSettle(t, o)
    \/ StartStream
    \/ \E d \in DeltaShapes : ReceiveDelta(d.size, d.tool)
    \/ PollVerdict
    \/ SpeakerFailed
    \/ SpeakerEnd
    \/ FinalVerdict
    \/ Tick

SpecTimed == TimedInit /\ [][NextTimed]_vars

\* --------------------------------------------- the Executive's /evaluate
\* The specification SpecExecutive follows each /evaluate call through the
\* handler of the Executive service: the search and the evaluation, then
\* updateKnowledgeGraph, then res.json(evaluation).

\* updateKnowledgeGraph goes on to the graph only when the messages hold a
\* user and an assistant message (it returns at once otherwise).
WritebackMutates == messagesHaveAssistant

\* Step 3 of /evaluate is reached for evaluation t: updateKnowledgeGraph is
\* called.  Nothing in the handler looks at whether the caller still waits
\* for the answer.  (As for ExecutiveSettle, the evaluations are followed
\* while the request is being served.)
BeginWriteback(t) ==
    /\ pc # "done"
    /\ t \in 1..Len(tasks)
    /\ tasks[t].status = "pending"
    /\ t \notin writing \cup written
    /\ IF WritebackMutates
       THEN /\ writing' = writing \cup {t}
            /\ UNCHANGED written
       ELSE /\ written' = written \cup {t}
            /\ UNCHANGED writing
    /\ UNCHANGED << orchVars, graphVars, otherVars, clientConnected, elapsed,
                    messagesHaveAssistant >>

\* updateKnowledgeGraph returns (its errors are logged and swallowed).
EndWriteback(t) ==
    /\ pc # "done"
    /\ t \in writing
    /\ writing' = writing \ {t}
    /\ written' = written \cup {t}
    /\ UNCHANGED << orchVars, graphVars, otherVars, clientConnected, elapsed,
                    messagesHaveAssistant >>

\* The call completes at the speaker: res.json(evaluation) after
\* updateKnowledgeGraph has returned, or a failure at any moment.
ExecutiveRespond(t, o) ==
    /\ (o # "fail" => t \in written)
    /\ ExecutiveSettle(t, o)

ExecutiveInit ==
    /\ OrchInit /\ GraphInit
    /\ ~isJsonMode /\ ~include_executive_thinking /\ ~DEBUG
    /\ clientConnected = TRUE
    /\ elapsed = 0
    /\ messagesHaveAssistant \in BOOLEAN
    /\ writing = {} /\ written = {}
    /\ OtherIdle

\* The Executive sees the Speaker's output only: this specification follows
\* the chunks that carry content (the others leave speakerOutput as it is).
ExecutiveShapes == { d \in DeltaShapes : d.size > 0 }

NextExecutive ==
    \/ \E t \in 1..(MaxDeltas + 1) : BeginWriteback(t)
    \/ \E t \in 1..(MaxDeltas + 1) : EndWriteback(t)
    \/ \E t \in 1..(MaxDeltas + 1), o \in EvaluateOutcomes : ExecutiveRespond(t, o)
    \/ StartStream
    \/ \E d \in ExecutiveShapes : ReceiveDelta(d.size, d.tool)
    \/ PollVerdict
    \/ SpeakerFailed
    \/ SpeakerEnd
    \/ FinalVerdict
    \/ \E d \in ExecutiveShapes : InvokeDone(d.size, d.tool)
    \/ InvokeFailed
    \/ ComposeResponse

SpecExecutive == ExecutiveInit /\ [][NextExecutive]_vars

\* ------------------------------------- the steps of the /evaluate handler
\* The specification SpecEvaluate follows each /evaluate call through the
\* three steps of the handler and res.json.  The graph the writeback works
\* on is followed in SpecWriteback; here a writeback returns or fails.

\* The actions evaluateSpeaker decides on (its catch gives 'none').
Evaluations == {"none", "interrupt"}

\* Step 2 for the call t: evaluation = await evaluateSpeaker(...).
EvaluateSpeaker(t, e) ==
    /\ pc # "done"
    /\ t \in 1..Len(tasks)
    /\ tasks[t].status = "pending"
    /\ \A r \in evaluations : r.task # t
    /\ evaluations' = evaluations \cup
                         { [task |-> t, evaluation |-> e, writeback |-> "pending"] }
    /\ UNCHANGED << orchVars, graphVars, surroundings, threadVars, bridge >>

\* Step 3 for the call t: await updateKnowledgeGraph(...) inside try/catch.
\* The writeback goes through, or fails (the failure is logged, inside
\* updateKnowledgeGraph or by the catch of the handler).
UpdateGraph(t, failed) ==
    /\ pc # "done"
    /\ \E r \in evaluations :
          /\ r.task = t /\ r.writeback = "pending"
          /\ evaluations' = (evaluations \ {r}) \cup
                { [r EXCEPT !.writeback = IF failed THEN "failed" ELSE "done"] }
    /\ UNCHANGED << orchVars, graphVars, surroundings, threadVars, bridge >>

\* Variant: step 3 without its try/catch, a failed writeback reaching the
\* catch of the handler (status 500).
HandlerResponse_Rethrow(r) == IF r.writeback = "failed" THEN "fail" ELSE r.evaluation

\* What the handler answers after step 3: res.json(evaluation).
HandlerResponse(r) == r.evaluation

\* The answer of the call t arrives at the Speaker.
SendEvaluation(t) ==
    \E r \in evaluations :
        /\ r.task = t /\ r.writeback # "pending"
        /\ ExecutiveSettle(t, HandlerResponse(r))

NextEvaluate ==
    \/ \E t \in 1..(MaxDeltas + 1), e \in Evaluations : EvaluateSpeaker(t, e)
    \/ \E t \in 1..(MaxDeltas + 1), failed \in BOOLEAN : UpdateGraph(t, failed)
    \/ \E t \in 1..(MaxDeltas + 1) : SendEvaluation(t)
    \/ StartStream
    \/ \E d \in ExecutiveShapes : ReceiveDelta(d.size, d.tool)
    \/ PollVerdict
    \/ SpeakerFailed
    \/ SpeakerEnd
    \/ FinalVerdict
    \/ \E d \in ExecutiveShapes : InvokeDone(d.size, d.tool)
    \/ InvokeFailed
    \/ ComposeResponse

\* A request whose messages hold an assistant message, so that every
\* writeback goes on to the graph.
EvaluateInit == ExecutiveInit /\ messagesHaveAssistant

SpecEvaluate == EvaluateInit /\ [][NextEvaluate]_vars

\* ------------------------------------------------- the knowledge graph
\* The specification SpecGraph follows the calls made to a Neo4jManager
\* whose schema has been initialized, with no chat request being served.

\* Largest number of nodes stored.
MaxNodes == 2

\* The node types and names the calls are made with, the summary handed in
\* additionalFields ("" when there is none; the callers hand one for
\* knowledge nodes only), and the belongsTo lists: no parent or one topic.
NodeTypes == {"tag_category", "tag", "topic", "knowledge"}
Names == {"a", "b"}
Summaries(nodeType) == IF nodeType = "knowledge" THEN {"", "s"} ELSE {""}
ParentRefs == [type : {"topic"}, name : Names]
BelongsToLists == { << >> } \cup { << p >> : p \in ParentRefs }

\* nodeType.split('_').map(capitalize).join('')
Label(nodeType) ==
    CASE nodeType = "tag_category" -> "TagCategory"
      [] nodeType = "tag" -> "Tag"
      [] nodeType = "topic" -> "Topic"
      [] nodeType = "knowledge" -> "Knowledge"

\* The labels whose name the constraints in place keep unique: after
\* initializeSchema topic_name, tag_category_name and tag_name.  The
\* constraint on the label Knowledge (knowledge_id) is on the property id,
\* which no node is given.
UniqueNameLabels ==
    { c.label : c \in { o \in schema : o.kind = "constraint" /\ o.property = "name" } }

\* What the embedding pipeline gives for a text: no vector that can be
\* extracted (generateEmbedding throws), or a vector of some length.
RawLengths == {0, 200, 384, 768}
ModelOutputs ==
    { [ok |-> FALSE, len |-> 0] } \cup { [ok |-> TRUE, len |-> n] : n \in RawLengths }

\* A node without the property embedding.
NoEmbedding == [text |-> "", dim |-> 0]

\* The length of a vector after the dimension check of generateEmbedding
\* and of setNodeEmbedding: slice(0, D) of a longer one, zeros appended to
\* a shorter one.
FitDimension(len) ==
    IF len > embeddingDimension THEN embeddingDimension
    ELSE IF len < embeddingDimension THEN len + (embeddingDimension - len)
    ELSE len

\* The vector stored by setNodeEmbedding(id, await generateEmbedding(text)):
\* the text it embeds and its length.
StoredEmbedding(text, output) ==
    [text |-> text, dim |-> FitDimension(FitDimension(output.len))]

\* Variant: a knowledge node is stored with the summary it was given.
SummaryOf_NoDefault(nodeType, name, summary) == summary

\* properties.summary of the node created: for knowledge nodes the name
\* stands in for a missing summary.
SummaryOf(nodeType, name, summary) ==
    IF nodeType = "knowledge" /\ summary = "" THEN name ELSE summary

RECURSIVE SortedIds(_)
\* The ids of S in increasing order.
SortedIds(S) ==
    IF S = {} THEN << >>
    ELSE LET m == CHOOSE x \in S : \A y \in S : x <= y
         IN  << m >> \o SortedIds(S \ {m})

\* One relationshipQuery of createNode: a BELONGS_TO edge from the child to
\* every stored node with the parent's label and name (none when there is
\* no such node).
RelationshipQuery(stored, childId, parent) ==
    LET ids == SortedIds({ n.id : n \in { m \in stored :
                                            /\ m.label = Label(parent.type)
                                            /\ m.name = parent.name } })
    IN  [i \in 1..Len(ids) |->
            [src |-> childId, dst |-> ids[i], rel |-> "BELONGS_TO"]]

RECURSIVE BelongsToEdges(_, _, _, _)
\* The edges created by the first n relationship queries.
BelongsToEdges(stored, childId, belongsTo, n) ==
    IF n = 0 THEN << >>
    ELSE BelongsToEdges(stored, childId, belongsTo, n - 1)
         \o RelationshipQuery(stored, childId, belongsTo[n])

\* The graph as a value: what a call of the manager works on.
Graph == [nodes |-> nodes, edges |-> edges, nextId |-> nextId]

\* createNode on the graph g; the graph it leaves and what it returns.
\* Every session.run commits on its own.  The CREATE fails on a uniqueness
\* constraint; output is what the embedding pipeline gives for the name (a
\* failure to embed is logged and swallowed); failAt is the relationship
\* query that throws, 0 for none.
CreateNodeOn(g, nodeType, name, summary, belongsTo, output, failAt) ==
    LET label == Label(nodeType)
    IN  IF /\ label \in UniqueNameLabels
           /\ \E n \in g.nodes : n.label = label /\ n.name = name
        THEN [nodes |-> g.nodes, edges |-> g.edges, nextId |-> g.nextId,
              status |-> "error", id |-> -1]
        ELSE LET node == [id |-> g.nextId, label |-> label, name |-> name,
                          summary |-> SummaryOf(nodeType, name, summary),
                          emb |-> IF output.ok THEN StoredEmbedding(name, output)
                                  ELSE NoEmbedding]
                 stored == g.nodes \cup {node}
                 ran == IF failAt = 0 THEN Len(belongsTo) ELSE failAt - 1
             IN  [nodes |-> stored,
                  edges |-> g.edges \o BelongsToEdges(stored, g.nextId, belongsTo, ran),
                  nextId |-> g.nextId + 1,
                  status |-> IF failAt = 0 THEN "ok" ELSE "error",
                  id |-> IF failAt = 0 THEN g.nextId ELSE -1]

\* Neo4jManager.createNode.
CreateNode(nodeType, name, summary, belongsTo, output, failAt) ==
    /\ pc = "idle"
    /\ Cardinality(nodes) < MaxNodes
    /\ failAt \in 0..Len(belongsTo)
    /\ lastCall' = [op |-> "createNode", nodeType |-> nodeType, name |-> name,
                    summary |-> summary, belongsTo |-> belongsTo]
    /\ LET r == CreateNodeOn(Graph, nodeType, name, summary, belongsTo, output, failAt)
       IN  /\ nodes' = r.nodes
           /\ edges' = r.edges
           /\ nextId' = r.nextId
           /\ lastResult' = [status |-> r.status, id |-> r.id]
    /\ UNCHANGED << orchVars, env, schema, embeddingDimension, vectorSupported >>

\* ------------------------------------------------------------ alterNode
\* The fields argument of alterNode: undefined, or an object with a new
\* name, a new summary, both, or nothing in it ("" stands for a key that
\* is not there).
NoFields == [given |-> FALSE, name |-> "", summary |-> ""]
FieldsObjects ==
    { NoFields } \cup [given : {TRUE}, name : Names \cup {""}, summary : {"", "t"}]

\* Variant: the fields are looked at before the delete flag.
AlterBranch_FieldsFirst(deleteNode, fields) ==
    IF fields.given THEN "update"
    ELSE IF deleteNode THEN "delete"
    ELSE "reject"

\* if (deleteNode) ... else if (fields) ... else throw
AlterBranch(deleteNode, fields) ==
    IF deleteNode THEN "delete"
    ELSE IF fields.given THEN "update"
    ELSE "reject"

\* MATCH (n:label) WHERE id(n) = $nodeId
MatchById(g, label, nodeId) ==
    { n \in g.nodes : n.label = label /\ n.id = nodeId }

\* Variant: the nodes are deleted and their edges left.
Detach_Keep(es, ids) == es

RECURSIVE Detach(_, _)
\* The edges left by DETACH DELETE of the nodes with the given ids.
Detach(es, ids) ==
    IF es = << >> THEN << >>
    ELSE (IF es[1].src \in ids \/ es[1].dst \in ids THEN << >> ELSE << es[1] >>)
         \o Detach(Tail(es), ids)

\* SET n.key = $fields.key for the keys of fields
SetFields(n, fields) ==
    [n EXCEPT !.name = IF fields.name # "" THEN fields.name ELSE @,
              !.summary = IF fields.summary # "" THEN fields.summary ELSE @]

\* alterNode on the graph g; the graph it leaves and the status it returns.
\* The update query throws on an object without keys (SET with nothing to
\* set) and on a name that a uniqueness constraint refuses.  After an
\* update of the name the embedding of the new name is set on the node with
\* that id, whatever its label; a failure to embed is logged and swallowed.
AlterNodeOn(g, nodeType, nodeId, deleteNode, fields, output) ==
    LET label == Label(nodeType)
        matched == MatchById(g, label, nodeId)
        same == [nodes |-> g.nodes, edges |-> g.edges, status |-> "error"]
        branch == AlterBranch(deleteNode, fields)
    IN  CASE branch = "delete" ->
               [nodes |-> g.nodes \ matched,
                edges |-> Detach(g.edges, { n.id : n \in matched }),
                status |-> "ok"]
          [] branch = "update" ->
               IF fields.name = "" /\ fields.summary = "" THEN same
               ELSE IF \E n \in matched, m \in g.nodes :
                          /\ fields.name # "" /\ label \in UniqueNameLabels
                          /\ m.id # n.id /\ m.label = label /\ m.name = fields.name
               THEN same
               ELSE LET updated == { IF n \in matched THEN SetFields(n, fields) ELSE n :
                                       n \in g.nodes }
                        embedded == { IF n.id = nodeId
                                      THEN [n EXCEPT !.emb = StoredEmbedding(fields.name, output)]
                                      ELSE n : n \in updated }
                    IN  [nodes |-> IF fields.name # "" /\ output.ok THEN embedded
                                   ELSE updated,
                         edges |-> g.edges,
                         status |-> "ok"]
          [] OTHER -> same

\* Neo4jManager.alterNode (knowledge_alter hands its arguments on).
AlterNode(nodeType, nodeId, deleteNode, fields, output) ==
    /\ pc = "idle"
    /\ lastCall' = [op |-> "alterNode", nodeType |-> nodeType, nodeId |-> nodeId,
                    deleteNode |-> deleteNode, fields |-> fields]
    /\ LET r == AlterNodeOn(Graph, nodeType, nodeId, deleteNode, fields, output)
       IN  /\ nodes' = r.nodes
           /\ edges' = r.edges
           /\ lastResult' = [status |-> r.status, id |-> nodeId]
    /\ UNCHANGED << orchVars, env, nextId, schema, embeddingDimension,
                    vectorSupported >>

\* ------------------------------------------------------- vector search
\* The texts that are embedded: the names, and a text unlike them.
Texts == Names \cup {"c"}

\* The cosine similarity of the embeddings of two texts, in hundredths: a
\* text with itself, two names (close to each other), a name and the
\* unlike text.
Similarity(x, y) ==
    IF x = y THEN 100
    ELSE IF x \in Names /\ y \in Names THEN 95
    ELSE 50

\* The limits and the minimum similarities of the calls, in hundredths
\* (the default 0.0 of hybridSearch, the 0.9 of updateKnowledgeGraph).
Limits == {1, 2}
MinSimilarities == {0, 90}

Min(a, b) == IF a < b THEN a ELSE b

\* The orders a query can give a set of rows in: any order, or any order
\* that ORDER BY score DESC allows (rows of equal score come in the order
\* the database happens to produce).
Orders(rows) ==
    { f \in [1..Cardinality(rows) -> rows] :
        \A i, j \in 1..Cardinality(rows) : i # j => f[i] # f[j] }
Descending(f) ==
    \A i \in 1..(Len(f) - 1) : f[i].score >= f[i + 1].score
\* LIMIT n
Limit(f, n) == SubSeq(f, 1, Min(n, Len(f)))
RankedRows(rows, n) == { Limit(f, n) : f \in { o \in Orders(rows) : Descending(o) } }
UnrankedRows(rows, n) == { Limit(f, n) : f \in Orders(rows) }

\* The nodes of a label that have the property embedding, and those of them
\* the vector index of the label holds (the vectors of its dimension).
Embedded(g, label) ==
    { n \in g.nodes : n.label = label /\ n.emb # NoEmbedding }
Indexed(g, label) ==
    { n \in Embedded(g, label) :
        \E o \in schema : o.name = VectorIndexName(label) /\ o.dim = n.emb.dim }

\* db.index.vector.queryNodes throws: no such index, a query vector of
\* another dimension than the index, or a failure of the database.
IndexQueryThrows(label, indexFails) ==
    \/ indexFails
    \/ ~ \E o \in schema : /\ o.name = VectorIndexName(label)
                            /\ o.dim = embeddingDimension

\* Variant: the rows of an index query that ran are returned as they are.
IndexIsFinal_Always(rows) == TRUE

\* if (result.records.length > 0) return ...: the rows of the index query
\* are the answer when there are some.
IndexIsFinal(rows) == rows # << >>

\* The answers of one search by its three queries.  byIndex, byCosine and
\* byScan are the sets of row lists the three queries can give.
FallbackChain(byIndex, byCosine, byScan, indexThrows, cosineFails) ==
    LET final == IF indexThrows THEN {} ELSE { r \in byIndex : IndexIsFinal(r) }
        falls == indexThrows \/ \E r \in byIndex : ~IndexIsFinal(r)
    IN  { [status |-> "ok", path |-> "index", rows |-> r] : r \in final }
        \cup (IF ~falls THEN {}
              ELSE IF ~cosineFails
                   THEN { [status |-> "ok", path |-> "cosine", rows |-> r] : r \in byCosine }
                   ELSE { [status |-> "ok", path |-> "scan", rows |-> r] : r \in byScan })

\* The rows of vectorSearch: id and score.
ScoredRows(found, text, minSimilarity) ==
    { r \in { [id |-> n.id, score |-> Similarity(n.emb.text, text)] : n \in found } :
        r.score >= minSimilarity }

\* The row lists the index query of vectorSearch can give.
VectorIndexRows(g, label, text, limit, minSimilarity) ==
    RankedRows(ScoredRows(Indexed(g, label), text, minSimilarity), limit)

\* What vectorSearch can return on the graph g.  output is what the
\* embedding pipeline gives for the text; cosineFails tells whether
\* vector.similarity.cosine throws.
VectorSearchOn(g, nodeType, text, limit, minSimilarity, output, indexFails, cosineFails) ==
    LET label == Label(nodeType)
    IN  IF ~output.ok THEN { [status |-> "error", path |-> "none", rows |-> << >>] }
        ELSE FallbackChain(
               VectorIndexRows(g, label, text, limit, minSimilarity),
               RankedRows(ScoredRows(Embedded(g, label), text, minSimilarity), limit),
               UnrankedRows({ [id |-> n.id, score |-> 100] : n \in Embedded(g, label) },
                            limit),
               IndexQueryThrows(label, indexFails), cosineFails)

\* Neo4jManager.vectorSearch.
VectorSearch(nodeType, text, limit, minSimilarity, output, indexFails, cosineFails) ==
    /\ pc = "idle"
    /\ lastCall' = [op |-> "vectorSearch", nodeType |-> nodeType, text |-> text,
                    limit |-> limit, minSimilarity |-> minSimilarity,
                    indexFails |-> indexFails, cosineFails |-> cosineFails]
    /\ lastResult' \in VectorSearchOn(Graph, nodeType, text, limit, minSimilarity,
                                      output, indexFails, cosineFails)
    /\ UNCHANGED << orchVars, env, nodes, edges, nextId, schema,
                    embeddingDimension, vectorSupported >>

\* The pattern (source:sourceLabel)<-[r:relationshipType]-(target:targetLabel)
\* over the given sources.
Related(g, sources, relationshipType, targetLabel) ==
    { p \in sources \X g.nodes :
        /\ p[2].label = targetLabel
        /\ \E i \in 1..Len(g.edges) : /\ g.edges[i].rel = relationshipType
                                        /\ g.edges[i].src = p[2].id
                                        /\ g.edges[i].dst = p[1].id }

\* The rows of hybridSearch: source, target and score.
HybridRows(pairs, text, minSimilarity) ==
    { r \in { [id |-> p[1].id, target |-> p[2].id,
               score |-> Similarity(p[1].emb.text, text)] : p \in pairs } :
        r.score >= minSimilarity }

\* The sets of sources queryNodes(indexName, k, embedding) can yield: the k
\* nearest of the index.
Nearest(found, text, k) ==
    { { n \in found : \E i \in 1..Len(top) : top[i].id = n.id } :
        top \in RankedRows(ScoredRows(found, text, 0), k) }

\* The row lists the index query of hybridSearch can give.
HybridIndexRows(g, sourceLabel, text, relationshipType, targetLabel, limit, minSimilarity) ==
    UNION { RankedRows(HybridRows(Related(g, near, relationshipType, targetLabel),
                                  text, minSimilarity), limit) :
              near \in Nearest(Indexed(g, sourceLabel), text, limit * 2) }

\* What hybridSearch can return on the graph g.
HybridSearchOn(g, nodeType, text, relationshipType, targetType, limit, minSimilarity, output, indexFails, cosineFails) ==
    LET sourceLabel == Label(nodeType)
        targetLabel == Label(targetType)
        labelled == { n \in g.nodes : n.label = sourceLabel }
    IN  IF ~output.ok THEN { [status |-> "error", path |-> "none", rows |-> << >>] }
        ELSE FallbackChain(
               HybridIndexRows(g, sourceLabel, text, relationshipType, targetLabel,
                               limit, minSimilarity),
               RankedRows(HybridRows(Related(g, Embedded(g, sourceLabel),
                                             relationshipType, targetLabel),
                                     text, minSimilarity), limit),
               UnrankedRows({ [id |-> p[1].id, target |-> p[2].id, score |-> 100] :
                                p \in Related(g, labelled, relationshipType, targetLabel) },
                            limit),
               IndexQueryThrows(sourceLabel, indexFails), cosineFails)

\* Neo4jManager.hybridSearch.
HybridSearch(nodeType, text, relationshipType, targetType, limit, minSimilarity, output, indexFails, cosineFails) ==
    /\ pc = "idle"
    /\ lastCall' = [op |-> "hybridSearch", nodeType |-> nodeType, text |-> text,
                    relationshipType |-> relationshipType, targetType |-> targetType,
                    limit |-> limit, minSimilarity |-> minSimilarity,
                    indexFails |-> indexFails, cosineFails |-> cosineFails]
    /\ lastResult' \in HybridSearchOn(Graph, nodeType, text, relationshipType,
                                      targetType, limit, minSimilarity, output,
                                      indexFails, cosineFails)
    /\ UNCHANGED << orchVars, env, nodes, edges, nextId, schema,
                    embeddingDimension, vectorSupported >>

GraphSpecInit == OrchIdle /\ EnvInit /\ GraphInit

NextGraph ==
    \E nodeType \in NodeTypes, name \in Names, belongsTo \in BelongsToLists,
       output \in ModelOutputs :
        \E summary \in Summaries(nodeType), failAt \in 0..Len(belongsTo) :
            CreateNode(nodeType, name, summary, belongsTo, output, failAt)

SpecGraph == GraphSpecInit /\ [][NextGraph]_vars

TypeOK ==
    /\ pc \in {"start", "loop", "race", "final", "evaluate", "done", "idle"}
    /\ executivePromise \in 1..Len(tasks)
    /\ Len(llmStream) <= MaxDeltas

\* The specification SpecSearch follows the searches made on a graph of
\* topics and of knowledge nodes that belong to them.
SearchTypes == {"topic", "knowledge"}
\* The pipeline fails, or gives a vector of the configured dimension.
UsualOutputs == { o \in ModelOutputs : ~o.ok \/ o.len = embeddingDimension }

\* A search leaves the graph as it is: what a search made after another
\* one finds, it finds as well when made in its place.  The searches are
\* followed one at a time, each on a graph as the other calls left it.
AfterSearch == lastCall.op \in {"vectorSearch", "hybridSearch"}

NextSearch ==
    \/ \E nodeType \in SearchTypes, name \in Names, belongsTo \in BelongsToLists,
          output \in UsualOutputs :
           CreateNode(nodeType, name, "", belongsTo, output, 0)
    \/ \E nodeType \in SearchTypes, text \in Texts, limit \in Limits,
          minSimilarity \in MinSimilarities, output \in UsualOutputs,
          indexFails \in BOOLEAN, cosineFails \in BOOLEAN :
           /\ ~AfterSearch
           /\ VectorSearch(nodeType, text, limit, minSimilarity, output,
                           indexFails, cosineFails)
    \/ \E text \in Texts, limit \in Limits, minSimilarity \in MinSimilarities,
          output \in UsualOutputs, indexFails \in BOOLEAN, cosineFails \in BOOLEAN :
           /\ ~AfterSearch
           /\ HybridSearch("topic", text, "BELONGS_TO", "knowledge", limit,
                           minSimilarity, output, indexFails, cosineFails)

SpecSearch == GraphSpecInit /\ [][NextSearch]_vars

\* The specification SpecAlter follows the alterations of a graph of topics
\* and knowledge nodes, and the vector searches made on it.  An id is given
\* to one node only (no more nodes are created than MaxNodes).
\* The fields objects of the alterations followed: none, the empty object,
\* a new name.
AlterFields == { f \in FieldsObjects : f.name \in {"", "b"} /\ f.summary = "" }

NextAlter ==
    \/ \E nodeType \in SearchTypes, name \in Names, belongsTo \in BelongsToLists,
          output \in UsualOutputs :
           /\ nextId < MaxNodes
           /\ output.ok
           /\ CreateNode(nodeType, name, "", belongsTo, output, 0)
    \/ \E nodeType \in SearchTypes, nodeId \in 0..(MaxNodes - 1),
          deleteNode \in BOOLEAN, fields \in AlterFields, output \in UsualOutputs :
           AlterNode(nodeType, nodeId, deleteNode, fields, output)
    \/ \E nodeType \in SearchTypes, limit \in Limits, output \in UsualOutputs,
          indexFails \in BOOLEAN :
           /\ ~AfterSearch
           /\ output.ok
           /\ VectorSearch(nodeType, "a", limit, 0, output, indexFails, FALSE)

SpecAlter == GraphSpecInit /\ [][NextAlter]_vars

\* ------------------------------------------------------ initializeSchema
\* An object of the schema that stands in the way of creating o: one of the
\* same name, or of the same kind on the same label and property.
Existing(s, o) ==
    { x \in s : \/ x.name = o.name
                \/ x.kind = o.kind /\ x.label = o.label /\ x.property = o.property }

\* Variant: a CREATE without IF NOT EXISTS, which throws on an object that
\* is there.
AlreadyExists_Throws(r) == [r EXCEPT !.ok = FALSE]

\* CREATE ... IF NOT EXISTS on an object that is there: nothing is done.
AlreadyExists(r) == r

\* A uniqueness constraint cannot be created over nodes that break it.
ConstraintViolated(g, o) ==
    /\ o.kind = "constraint" /\ o.property = "name"
    /\ \E n, m \in g.nodes : n # m /\ n.label = o.label /\ m.label = o.label
                              /\ n.name = m.name

\* One session.run of a CREATE ... IF NOT EXISTS statement; r is the schema
\* so far and whether the statements so far went through.
RunStatement(r, g, o) ==
    IF ~r.ok THEN r
    ELSE IF Existing(r.schema, o) # {} THEN AlreadyExists(r)
    ELSE IF ConstraintViolated(g, o) THEN [r EXCEPT !.ok = FALSE]
    ELSE [r EXCEPT !.schema = @ \cup {o}]

RECURSIVE RunStatements(_, _, _, _)
\* The first n statements of stmts, in their order, up to one that throws.
RunStatements(r, g, stmts, n) ==
    IF n = 0 THEN r
    ELSE RunStatement(RunStatements(r, g, stmts, n - 1), g, stmts[n])

\* The inner try of initializeSchema: SHOW INDEXES WHERE type = 'VECTOR',
\* then createVectorIndex for each index of indexesToCreate whose name is
\* not among them.  What is thrown here (a database without vector
\* indexes) is logged and swallowed.
CreateVectorIndexes(s, supported) ==
    LET existingIndexes == { x.name : x \in { y \in s : y.kind = "vector" } }
        missing == { o \in Range(SchemaVectorIndexes) : o.name \notin existingIndexes }
    IN  IF supported
        THEN s \cup { o \in missing : Existing(s, o) = {} }
        ELSE s

\* initializeSchema on the graph g with the schema s.
InitializeSchemaOn(g, s, supported) ==
    LET stmts == SchemaConstraints \o SchemaIndexes
        r == RunStatements([schema |-> s, ok |-> TRUE], g, stmts, Len(stmts))
    IN  IF r.ok
        THEN [schema |-> CreateVectorIndexes(r.schema, supported), status |-> "ok"]
        ELSE [schema |-> r.schema, status |-> "error"]

\* Neo4jManager.initializeSchema; created is what the run has added to the
\* schema.
InitializeSchema ==
    /\ pc = "idle"
    /\ lastCall' = [op |-> "initializeSchema"]
    /\ LET r == InitializeSchemaOn(Graph, schema, vectorSupported)
       IN  /\ schema' = r.schema
           /\ lastResult' = [status |-> r.status, id |-> -1,
                             created |-> r.schema \ schema]
    /\ UNCHANGED << orchVars, env, nodes, edges, nextId, embeddingDimension,
                    vectorSupported >>

\* Neo4jManager.setNodeEmbedding called with a vector of output.len entries
\* made for text: the vector is brought to the configured dimension and set
\* on the node of that id.
SetNodeEmbedding(nodeId, text, output) ==
    /\ pc = "idle"
    /\ output.ok
    /\ lastCall' = [op |-> "setNodeEmbedding", nodeId |-> nodeId, text |-> text]
    /\ nodes' = { IF n.id = nodeId THEN [n EXCEPT !.emb = StoredEmbedding(text, output)]
                  ELSE n : n \in nodes }
    /\ lastResult' = [status |-> "ok", id |-> nodeId]
    /\ UNCHANGED << orchVars, env, edges, nextId, schema, embeddingDimension,
                    vectorSupported >>

\* The values of EMBEDDING_DIMENSION followed: the default and another.
EmbeddingDimensions == { DEFAULT_EMBEDDING_DIMENSION, 2 * DEFAULT_EMBEDDING_DIMENSION }

\* A manager constructed on an empty database, before initializeSchema has
\* run (initializeNeo4jManager sets the manager before it awaits
\* initializeSchema, and is itself not awaited).
SchemaInit ==
    /\ OrchIdle /\ EnvInit
    /\ nodes = {} /\ edges = << >> /\ nextId = 0
    /\ lastCall = [op |-> "none"]
    /\ lastResult = [status |-> "none", id |-> 0]
    /\ schema = {}
    /\ embeddingDimension \in EmbeddingDimensions
    /\ vectorSupported \in BOOLEAN

NextSchema ==
    \/ InitializeSchema
    \/ \E nodeType \in SearchTypes, name \in Names, output \in ModelOutputs :
           /\ nextId < MaxNodes
           /\ CreateNode(nodeType, name, "", << >>, output, 0)
    \/ \E nodeType \in SearchTypes, nodeId \in 0..(MaxNodes - 1),
          fields \in AlterFields, output \in ModelOutputs :
           /\ fields.name # ""
           /\ AlterNode(nodeType, nodeId, FALSE, fields, output)
    \/ \E nodeId \in 0..(MaxNodes - 1), text \in Names, output \in ModelOutputs :
           SetNodeEmbedding(nodeId, text, output)

SpecSchema == SchemaInit /\ [][NextSchema]_vars

\* ------------------------------------------------- updateKnowledgeGraph
\* `Conversation about: ${query}`
KnowledgeName(query) == "Conversation about: " \o query

\* `User asked: ${userMessage.content.substring(0, 100)}...`
KnowledgeSummary == "User asked: ..."

\* if (topicId): the id 0 and null are falsy (-1 stands for null).
Truthy(topicId) == topicId # 0 /\ topicId # -1

\* updateKnowledgeGraph after its vector search has returned found: the
\* topic is the first row, or is created with the query as its name; with
\* a truthy topic id the knowledge node is created with
\* belongsTo [{type: 'topic', name: query}].  What a call throws ends the
\* writeback (it is logged).
WritebackWith(g, query, found, output) ==
    LET same == [nodes |-> g.nodes, edges |-> g.edges, nextId |-> g.nextId,
                 status |-> "ok", id |-> -1]
        topic == IF found.rows = << >>
                 THEN CreateNodeOn(g, "topic", query, "", << >>, output, 0)
                 ELSE [same EXCEPT !.id = found.rows[1].id]
    IN  IF found.status = "error" THEN same
        ELSE IF topic.status = "error" \/ ~Truthy(topic.id) THEN topic
        ELSE CreateNodeOn([nodes |-> topic.nodes, edges |-> topic.edges,
                           nextId |-> topic.nextId],
                          "knowledge", KnowledgeName(query), KnowledgeSummary,
                          << [type |-> "topic", name |-> query] >>, output, 0)

\* updateKnowledgeGraph(query, messages, knowledgeDocument), from its first
\* line to its return: the search for a topic (limit 1, minSimilarity 0.9)
\* and the nodes created.  searchOutput and output are what the embedding
\* pipeline gives for the query and for the names of the nodes.
UpdateKnowledgeGraph(query, searchOutput, output, indexFails, cosineFails) ==
    /\ pc = "idle"
    /\ lastCall' = [op |-> "updateKnowledgeGraph", query |-> query]
    /\ IF ~WritebackMutates
       THEN /\ UNCHANGED << nodes, edges, nextId >>
            /\ lastResult' = [status |-> "ok", id |-> -1]
       ELSE \E found \in VectorSearchOn(Graph, "topic", query, 1, 90, searchOutput,
                                        indexFails, cosineFails) :
               LET r == WritebackWith(Graph, query, found, output)
               IN  /\ nodes' = r.nodes
                   /\ edges' = r.edges
                   /\ nextId' = r.nextId
                   /\ lastResult' = [status |-> "ok", id |-> r.id]
    /\ UNCHANGED << orchVars, env, schema, embeddingDimension, vectorSupported >>

\* The specification SpecWriteback follows the writebacks of the Executive
\* on a graph that also gets topics by createNode.  A call begins while no
\* more ids than MaxNodes are given.
NextWriteback ==
    \/ \E name \in Names, output \in UsualOutputs :
           /\ nextId < MaxNodes
           /\ CreateNode("topic", name, "", << >>, output, 0)
    \/ \E query \in Texts, searchOutput \in UsualOutputs, output \in UsualOutputs,
          indexFails \in BOOLEAN, cosineFails \in BOOLEAN :
           /\ nextId <= MaxNodes
           /\ UpdateKnowledgeGraph(query, searchOutput, output, indexFails, cosineFails)

\* The messages of the request hold an assistant message, or (a first turn)
\* none.
WritebackInit ==
    /\ OrchIdle /\ GraphInit
    /\ clientConnected = TRUE
    /\ elapsed = 0
    /\ messagesHaveAssistant \in BOOLEAN
    /\ writing = {} /\ written = {}
    /\ OtherIdle

SpecWriteback == WritebackInit /\ [][NextWriteback]_vars

\* ------------------------------------------------------ the thread store
\* ThreadManager over its SQLite file.  A row of threads is
\* [thread_id, last_accessed, message_count]; a row of messages is
\* [id, thread_id, position, is_summary] (id is the AUTOINCREMENT key, which
\* tells the messages apart); a row of progress_documents is
\* [thread_id, content], the content being "doc" or "".

\* this.preserveMessageCount of ContextManager, by default.
PRESERVE_MESSAGE_COUNT == 4

\* Largest number of message rows ever inserted.
MaxRows == 8

\* The expiration time and the last instant followed, in ticks of the clock.
ExpirationTicks == 1
MaxNow == 3

ThreadIds == {"t1", "t2"}

MessagesOf(d, th) == { m \in d.messages : m.thread_id = th }
HasThread(d, th) == \E t \in d.threads : t.thread_id = th

\* DELETE FROM threads WHERE thread_id = ?, for each thread of ths.  The
\* tables messages and progress_documents are declared ON DELETE CASCADE,
\* which SQLite acts on only when PRAGMA foreign_keys is on for the
\* connection; ThreadManager never sets it, so fk is what the build of
\* sqlite3 has as its default.
DeleteThreadRows(d, ths, fk) ==
    [d EXCEPT !.threads = { t \in @ : t.thread_id \notin ths },
              !.messages = IF fk THEN { m \in @ : m.thread_id \notin ths } ELSE @,
              !.progress_documents =
                  IF fk THEN { p \in @ : p.thread_id \notin ths } ELSE @]

\* UPDATE threads SET last_accessed = ? WHERE thread_id = ?
Touch(d, th, t) ==
    [d EXCEPT !.threads = { IF r.thread_id = th THEN [r EXCEPT !.last_accessed = t]
                            ELSE r : r \in @ }]

\* getOrCreateThread: the thread is touched, or inserted with count 0.
GetOrCreateThreadOn(d, th, t) ==
    IF HasThread(d, th) THEN Touch(d, th, t)
    ELSE [d EXCEPT !.threads = @ \cup { [thread_id |-> th, last_accessed |-> t,
                                         message_count |-> 0] }]

\* SELECT MAX(position) ...: nextPosition is 0 when the thread has no row.
NextPosition(d, th) ==
    IF MessagesOf(d, th) = {} THEN 0
    ELSE 1 + CHOOSE p \in { m.position : m \in MessagesOf(d, th) } :
                 \A m \in MessagesOf(d, th) : m.position <= p

\* One INSERT INTO messages.
InsertMessage(d, th, position, isSummary) ==
    [d EXCEPT !.messages = @ \cup { [id |-> d.seq + 1, thread_id |-> th,
                                     position |-> position,
                                     is_summary |-> isSummary] },
              !.seq = @ + 1]

RECURSIVE InsertMessages(_, _, _, _)
\* The loop of addMessagesToThread over k messages, from nextPosition on.
InsertMessages(d, th, k, nextPosition) ==
    IF k = 0 THEN d
    ELSE InsertMessages(InsertMessage(d, th, nextPosition, FALSE), th, k - 1,
                        nextPosition + 1)

\* UPDATE threads SET message_count = message_count + ?, last_accessed = ?
CountAndTouch(d, th, delta, t) ==
    [d EXCEPT !.threads = { IF r.thread_id = th
                            THEN [r EXCEPT !.message_count = @ + delta,
                                           !.last_accessed = t]
                            ELSE r : r \in @ }]

\* addMessagesToThread(threadId, messages) with k messages, run alone on
\* the connection.
AddMessagesOn(d, th, k, t) ==
    LET d1 == GetOrCreateThreadOn(d, th, t)
        d2 == InsertMessages(d1, th, k, NextPosition(d1, th))
    IN  GetOrCreateThreadOn(CountAndTouch(d2, th, k, t), th, t)

\* The statements of replaceMessagesWithSummary between BEGIN and COMMIT:
\* the DELETE of the range, the INSERT of the summary at startPosition, the
\* UPDATE of the positions after the range, the UPDATE of the count.
DeleteRange(d, th, startPosition, endPosition) ==
    [d EXCEPT !.messages =
        { m \in @ : ~ (/\ m.thread_id = th
                       /\ m.position >= startPosition
                       /\ m.position <= endPosition) }]
ShiftAfter(d, th, startPosition, endPosition) ==
    [d EXCEPT !.messages =
        { IF m.thread_id = th /\ m.position > endPosition
          THEN [m EXCEPT !.position = @ - (endPosition - startPosition - 1)]
          ELSE m : m \in @ }]
ReplaceStatements(d, th, startPosition, endPosition, t) ==
    LET d1 == DeleteRange(d, th, startPosition, endPosition)
        d2 == InsertMessage(d1, th, startPosition, TRUE)
        d3 == ShiftAfter(d2, th, startPosition, endPosition)
        deletedCount == endPosition - startPosition + 1
    IN  CountAndTouch(d3, th, 1 - deletedCount, t)

\* replaceMessagesWithSummary run alone on the connection.  With foreign
\* keys enforced the INSERT of a message of a thread that has no row
\* throws, and the transaction is rolled back.
ReplaceOn(d, th, startPosition, endPosition, t, fk) ==
    IF fk /\ ~HasThread(d, th) THEN d
    ELSE GetOrCreateThreadOn(ReplaceStatements(d, th, startPosition, endPosition, t),
                             th, t)

\* updateProgressDocument(threadId, content) of ThreadManager.
UpdateProgressOn(d, th, content, t, fk) ==
    IF fk /\ ~HasThread(d, th) /\ ~ \E p \in d.progress_documents : p.thread_id = th
    THEN d
    ELSE Touch([d EXCEPT !.progress_documents =
                    { p \in @ : p.thread_id # th }
                    \cup { [thread_id |-> th, content |-> content] }], th, t)

\* The variables no call of the thread store changes.
notThreads == << orchVars, graphVars, surroundings, evaluations, bridge >>

GetOrCreateThread(th) ==
    /\ db' = GetOrCreateThreadOn(db, th, now)
    /\ UNCHANGED << notThreads, now, foreignKeys, txn, calls >>

AddMessagesToThread(th, k) ==
    /\ db.seq + k <= MaxRows
    /\ db' = AddMessagesOn(db, th, k, now)
    /\ UNCHANGED << notThreads, now, foreignKeys, txn, calls >>

ReplaceMessagesWithSummary(th, startPosition, endPosition) ==
    /\ db.seq < MaxRows
    /\ db' = ReplaceOn(db, th, startPosition, endPosition, now, foreignKeys)
    /\ UNCHANGED << notThreads, now, foreignKeys, txn, calls >>

\* ContextManager.manageContextWindow on the stored messages of the
\* thread, when isSummarizationNeeded finds the window full (it needs more
\* messages than are preserved): the older messages are replaced by the
\* summary, positions 0 to messages.length - preserveCount - 1, and the
\* summary is added to the progress document.
ManageContextWindow(th) ==
    LET length == Cardinality(MessagesOf(db, th))
        preserveCount == Min(PRESERVE_MESSAGE_COUNT, length)
        endPosition == length - preserveCount - 1
    IN  /\ length > PRESERVE_MESSAGE_COUNT
        /\ db.seq < MaxRows
        /\ db' = UpdateProgressOn(
                    ReplaceOn(db, th, 0, endPosition, now, foreignKeys),
                    th, "doc", now, foreignKeys)
        /\ UNCHANGED << notThreads, now, foreignKeys, txn, calls >>

\* ProgressTracker.updateProgressDocument, as far as the store goes.
UpdateProgressDocument(th) ==
    /\ db' = UpdateProgressOn(db, th, "doc", now, foreignKeys)
    /\ UNCHANGED << notThreads, now, foreignKeys, txn, calls >>

\* ExtendedMode.deleteThread: deleteProgressDocument (which writes the empty
\* content to the row of the store and unlinks the file), then
\* ThreadManager.deleteThread, which deletes the row of threads when there
\* is one.
DeleteThread(th) ==
    /\ LET d1 == UpdateProgressOn(db, th, "", now, foreignKeys)
       IN  db' = IF HasThread(d1, th) THEN DeleteThreadRows(d1, {th}, foreignKeys)
                 ELSE d1
    /\ UNCHANGED << notThreads, now, foreignKeys, txn, calls >>

\* A store on a build of SQLite with either default of foreign_keys.
ThreadsInit ==
    /\ OrchIdle /\ GraphInit
    /\ clientConnected = TRUE /\ elapsed = 0 /\ messagesHaveAssistant = TRUE
    /\ writing = {} /\ written = {}
    /\ EvaluateIdle /\ BridgeIdle
    /\ db = EmptyDb /\ now = 0 /\ txn = NoTransaction /\ calls = << >>
    /\ foreignKeys \in BOOLEAN

\* The sizes of the message arrays added.
AddSizes == {1, 2}

\* The specification SpecThreads follows the creation, the filling and the
\* deletion of threads.
NextThreads ==
    \/ \E th \in ThreadIds : GetOrCreateThread(th)
    \/ \E th \in ThreadIds, k \in AddSizes : AddMessagesToThread(th, k)
    \/ \E th \in ThreadIds : UpdateProgressDocument(th)
    \/ \E th \in ThreadIds : DeleteThread(th)

SpecThreads == ThreadsInit /\ [][NextThreads]_vars

\* The specification SpecMessages follows the messages of one thread under
\* addMessagesToThread and replaceMessagesWithSummary, the latter called
\* by the summarization or with a range of indices of the messages that
\* getThreadMessages returns.
Positions == 0..2
NextMessages ==
    \/ \E k \in AddSizes : AddMessagesToThread("t1", k)
    \/ \E startPosition \in Positions, endPosition \in Positions :
          /\ startPosition <= endPosition
          /\ endPosition < Cardinality(MessagesOf(db, "t1"))
          /\ ReplaceMessagesWithSummary("t1", startPosition, endPosition)
    \/ ManageContextWindow("t1")

SpecMessages == ThreadsInit /\ [][NextMessages]_vars

\* The specification SpecSummarize follows a thread that grows and is
\* summarized whenever its window is found full.
NextSummarize ==
    \/ \E th \in ThreadIds, k \in AddSizes : AddMessagesToThread(th, k)
    \/ \E th \in ThreadIds : ManageContextWindow(th)

SpecSummarize == ThreadsInit /\ [][NextSummarize]_vars

\* ------------------------------------------------------ periodic cleanup
\* The clock of Date.now().
ClockTick ==
    /\ now < MaxNow
    /\ now' = now + 1
    /\ UNCHANGED << notThreads, db, foreignKeys, txn, calls >>

CleanupRunning == \E i \in 1..Len(calls) : calls[i].op = "cleanup"

\* The timer fires: cleanupExpiredThreads up to its SELECT of the threads
\* with last_accessed < Date.now() - expirationTime.  With none it returns.
CleanupSelect ==
    /\ ~CleanupRunning
    /\ LET expirationThreshold == now - ExpirationTicks
           expiredThreads == { t.thread_id : t \in
                                { r \in db.threads :
                                    r.last_accessed < expirationThreshold } }
       IN  calls' = IF expiredThreads = {} THEN calls
                    ELSE Append(calls, [op |-> "cleanup", expired |-> expiredThreads])
    /\ UNCHANGED << notThreads, db, now, foreignKeys, txn >>

\* One round of the loop of cleanupExpiredThreads: the DELETE of one of the
\* threads selected (in the order the SELECT gave them).
CleanupDelete(th) ==
    \E i \in 1..Len(calls) :
        /\ calls[i].op = "cleanup"
        /\ th \in calls[i].expired
        /\ db' = DeleteThreadRows(db, {th}, foreignKeys)
        /\ calls' = IF calls[i].expired = {th}
                    THEN SubSeq(calls, 1, i - 1) \o SubSeq(calls, i + 1, Len(calls))
                    ELSE [calls EXCEPT ![i].expired = @ \ {th}]
        /\ UNCHANGED << notThreads, now, foreignKeys, txn >>

\* The specification SpecCleanup follows the threads as time passes, with
\* the requests that access them and the cleanup timer.
NextCleanup ==
    \/ ClockTick
    \/ \E th \in ThreadIds : GetOrCreateThread(th)
    \/ \E th \in ThreadIds : AddMessagesToThread(th, 1)
    \/ \E th \in ThreadIds : UpdateProgressDocument(th)
    \/ CleanupSelect
    \/ \E th \in ThreadIds : CleanupDelete(th)

SpecCleanup == ThreadsInit /\ [][NextCleanup]_vars

\* ------------------------------------------- calls on the one connection
\* addMessagesToThread and replaceMessagesWithSummary statement by
\* statement: every await this.db.run(...) lets the statements of the other
\* calls in flight through, all on the connection this.db.

\* Largest number of calls followed.
MaxCalls == 2

\* A call that has ended: returned ("done") or thrown ("failed").
Finished(c) == c.pc = "end"

\* BEGIN TRANSACTION throws when a transaction is open on the connection;
\* COMMIT and ROLLBACK throw when none is.
BeginThrows == txn.active
EndThrows == ~txn.active

\* The statement at which the call c stands; what it does to the database,
\* and whether it throws.
StatementThrows(c) ==
    CASE c.pc = "begin" -> BeginThrows
      [] c.pc = "commit" -> EndThrows
      [] c.pc \in {"insert", "summary"} -> foreignKeys /\ ~HasThread(db, c.th)
      [] OTHER -> FALSE

StatementOn(d, c) ==
    CASE c.pc \in {"getOrCreate", "reload"} -> GetOrCreateThreadOn(d, c.th, now)
      [] c.pc = "insert" -> InsertMessage(d, c.th, c.nextPosition, FALSE)
      [] c.pc = "delete" -> DeleteRange(d, c.th, c.startPosition, c.endPosition)
      [] c.pc = "summary" -> InsertMessage(d, c.th, c.startPosition, TRUE)
      [] c.pc = "shift" -> ShiftAfter(d, c.th, c.startPosition, c.endPosition)
      [] c.pc = "count" ->
            CountAndTouch(d, c.th,
                          IF c.op = "add" THEN c.k
                          ELSE 1 - (c.endPosition - c.startPosition + 1), now)
      [] OTHER -> d

\* The call after its statement has gone through.
Advance(c) ==
    CASE c.pc = "getOrCreate" -> [c EXCEPT !.pc = "begin"]
      [] c.pc = "begin" -> [c EXCEPT !.pc = IF c.op = "add" THEN "max" ELSE "delete"]
      [] c.pc = "max" -> [c EXCEPT !.pc = "insert", !.nextPosition = NextPosition(db, c.th)]
      [] c.pc = "insert" ->
            [c EXCEPT !.pc = IF c.left = 1 THEN "count" ELSE "insert",
                      !.left = @ - 1, !.nextPosition = @ + 1,
                      !.inserted = @ \cup {db.seq + 1}]
      [] c.pc = "delete" -> [c EXCEPT !.pc = "summary"]
      [] c.pc = "summary" -> [c EXCEPT !.pc = "shift", !.inserted = @ \cup {db.seq + 1}]
      [] c.pc = "shift" -> [c EXCEPT !.pc = "count"]
      [] c.pc = "count" -> [c EXCEPT !.pc = "commit"]
      [] c.pc = "commit" -> [c EXCEPT !.pc = "reload"]
      [] c.pc = "reload" -> [c EXCEPT !.pc = "end", !.status = "done"]

\* A call is made.
StartCall(op, th, k, startPosition, endPosition) ==
    /\ Len(calls) < MaxCalls
    /\ calls' = Append(calls,
                  [op |-> op, th |-> th, k |-> k, left |-> k,
                   startPosition |-> startPosition, endPosition |-> endPosition,
                   nextPosition |-> 0, inserted |-> {}, status |-> "running",
                   pc |-> IF op = "add" THEN "getOrCreate" ELSE "begin"])
    /\ UNCHANGED << notThreads, db, now, foreignKeys, txn >>

\* The next statement of the call i: it goes through, or throws into the
\* catch of the call; the catch runs ROLLBACK and throws.
Statement(i) ==
    LET c == calls[i]
    IN  /\ c.op \in {"add", "replace"} /\ ~Finished(c)
        /\ IF c.pc = "rollback"
           THEN /\ calls' = [calls EXCEPT ![i] = [c EXCEPT !.pc = "end",
                                                           !.status = "failed"]]
                /\ IF EndThrows THEN UNCHANGED << db, txn >>
                   ELSE db' = txn.saved /\ txn' = NoTransaction
           ELSE IF StatementThrows(c)
           THEN /\ calls' = [calls EXCEPT ![i] = [c EXCEPT !.pc = "rollback"]]
                /\ UNCHANGED << db, txn >>
           ELSE /\ calls' = [calls EXCEPT ![i] = Advance(c)]
                /\ db' = StatementOn(db, c)
                /\ txn' = CASE c.pc = "begin" -> [active |-> TRUE, saved |-> db]
                            [] c.pc = "commit" -> NoTransaction
                            [] OTHER -> txn
        /\ UNCHANGED << notThreads, now, foreignKeys >>

\* The specification SpecConcurrent follows the calls in flight together.
NextConcurrent ==
    \/ \E th \in ThreadIds, k \in AddSizes : StartCall("add", th, k, 0, 0)
    \/ \E th \in ThreadIds : StartCall("replace", th, 0, 0, 0)
    \/ \E i \in 1..Len(calls) : Statement(i)

SpecConcurrent == ThreadsInit /\ [][NextConcurrent]_vars

\* ------------------------------------------- API bridge, streaming branch
\* handleChatCompletion with stream set: the handlers of the Speaker
\* stream, of the Executive's verdict and of the second Speaker stream
\* that a restart opens, each run to its end in the order the events come.

\* Largest number of chunks followed on each Speaker stream.
MaxChunks == 2

notBridge == << orchVars, graphVars, surroundings, evaluations, threadVars >>

Streaming == bridge.pc = "streaming"

\* res.write(...) and res.end() on the response b: doneWrites counts the
\* calls that write the [DONE] line, wroteAfterEnd records a call to
\* res.write made when res.end() had been called.
ResWrite(b, isDone) ==
    [b EXCEPT !.doneWrites = IF isDone THEN @ + 1 ELSE @,
              !.wroteAfterEnd = @ \/ b.writableEnded]
ResEnd(b) == [b EXCEPT !.writableEnded = TRUE]

\* The Speaker stream is open and the evaluation requested.
BridgeStart ==
    /\ bridge.pc = "idle"
    /\ bridge' = [pc |-> "streaming", speaker |-> "open", chunks |-> 0,
                  verdict |-> "pending", isInterrupted |-> FALSE,
                  toolCallsInProgress |-> FALSE, toolCallsData |-> 0,
                  newSpeaker |-> "none", newChunks |-> 0,
                  writableEnded |-> FALSE, doneWrites |-> 0,
                  wroteAfterEnd |-> FALSE]
    /\ UNCHANGED notBridge

\* speakerResponse.data.on('data'): isToolCall is
\* chunkStr.includes('"tool_calls":').
BridgeSpeakerData(isToolCall) ==
    /\ Streaming /\ bridge.speaker = "open" /\ bridge.chunks < MaxChunks
    /\ LET b == [bridge EXCEPT !.chunks = @ + 1]
       IN  bridge' =
             IF ~b.isInterrupted
             THEN IF isToolCall \/ b.toolCallsInProgress
                  THEN [b EXCEPT !.toolCallsInProgress = TRUE,
                                 !.toolCallsData = @ + 1]
                  ELSE ResWrite(b, FALSE)
             ELSE b
    /\ UNCHANGED notBridge

\* speakerResponse.data.on('end').
BridgeSpeakerEnd ==
    /\ Streaming /\ bridge.speaker = "open"
    /\ LET b == [bridge EXCEPT !.speaker = "ended"]
           flushed == IF b.toolCallsInProgress /\ b.toolCallsData > 0
                      THEN ResWrite(b, FALSE) ELSE b
       IN  bridge' = IF ~b.isInterrupted
                     THEN ResEnd(ResWrite(flushed, TRUE))
                     ELSE b
    /\ UNCHANGED notBridge

\* executivePromise.then: the verdict of the Executive arrives.
BridgeVerdict(action) ==
    /\ Streaming /\ bridge.verdict = "pending"
    /\ LET b == [bridge EXCEPT !.verdict = action]
       IN  bridge' =
             CASE action = "interrupt" ->
                    [ResWrite([b EXCEPT !.isInterrupted = TRUE], FALSE)
                        EXCEPT !.isInterrupted = FALSE]
               [] action = "restart" ->
                    [ResWrite([b EXCEPT !.isInterrupted = TRUE], FALSE)
                        EXCEPT !.newSpeaker = "requested"]
               [] OTHER -> b
    /\ UNCHANGED notBridge

\* executivePromise rejects: the catch logs.
BridgeVerdictFails ==
    /\ Streaming /\ bridge.verdict = "pending"
    /\ bridge' = [bridge EXCEPT !.verdict = "failed"]
    /\ UNCHANGED notBridge

\* The request for the second Speaker stream resolves, or rejects (into the
\* same catch).
BridgeNewSpeaker(ok) ==
    /\ Streaming /\ bridge.newSpeaker = "requested"
    /\ bridge' = [bridge EXCEPT !.newSpeaker = IF ok THEN "open" ELSE "failed"]
    /\ UNCHANGED notBridge

\* newSpeakerResponse.data.on('data').
BridgeNewSpeakerData ==
    /\ Streaming /\ bridge.newSpeaker = "open" /\ bridge.newChunks < MaxChunks
    /\ bridge' = ResWrite([bridge EXCEPT !.newChunks = @ + 1], FALSE)
    /\ UNCHANGED notBridge

\* newSpeakerResponse.data.on('end').
BridgeNewSpeakerEnd ==
    /\ Streaming /\ bridge.newSpeaker = "open"
    /\ bridge' = ResEnd(ResWrite([bridge EXCEPT !.newSpeaker = "ended"], TRUE))
    /\ UNCHANGED notBridge

Verdicts == {"none", "interrupt", "restart"}

BridgeInit ==
    /\ OrchIdle /\ GraphInit
    /\ clientConnected = TRUE /\ elapsed = 0 /\ messagesHaveAssistant = TRUE
    /\ writing = {} /\ written = {}
    /\ OtherIdle /\ foreignKeys = FALSE

\* The specification SpecBridge follows one streaming request through the
\* bridge.
NextBridge ==
    \/ BridgeStart
    \/ \E isToolCall \in BOOLEAN : BridgeSpeakerData(isToolCall)
    \/ BridgeSpeakerEnd
    \/ \E action \in Verdicts : BridgeVerdict(action)
    \/ BridgeVerdictFails
    \/ \E ok \in BOOLEAN : BridgeNewSpeaker(ok)
    \/ BridgeNewSpeakerData
    \/ BridgeNewSpeakerEnd

SpecBridge == BridgeInit /\ [][NextBridge]_vars

\* =================================================================== claims
\* Positions in res, by what was written there.
Written == 1..Len(res)
DoneIdx == { i \in Written : res[i].sentinel }
FinishIdx == { i \in Written : ~res[i].sentinel /\ res[i].finish_reason # "null" }
HasPiece(c, k) == \E j \in 1..Len(c.content) : c.content[j].k = k
\* content.contains("[Executive Interruption:")
InterruptionIdx == { i \in Written : HasPiece(res[i], "interruption") }
ErrorIdx == { i \in Written : HasPiece(res[i], "error") }
\* A chunk that forwards a Speaker chunk: no role, no thinking, finish_reason
\* null, and whatever content it has is Speaker text.
IsSpeakerChunk(c) ==
    /\ ~c.sentinel /\ ~c.role /\ c.thinking = 0 /\ c.finish_reason = "null"
    /\ \A j \in 1..Len(c.content) : c.content[j].k = "spk"
SpeakerIdx == { i \in Written : IsSpeakerChunk(res[i]) }

RECURSIVE ForwardedFrom(_)
\* The concatenation of the content of the forwarded Speaker chunks, from
\* position i of res on.
ForwardedFrom(i) ==
    IF i > Len(res) THEN << >>
    ELSE (IF IsSpeakerChunk(res[i]) THEN res[i].content ELSE << >>)
         \o ForwardedFrom(i + 1)

C3_AtMostOneInterruption == Cardinality(InterruptionIdx) <= 1

\* An interruption was written in the loop, further deltas came, the
\* promise still holds interrupt, and the request is over.
C3_Witness ==
    /\ stream /\ pc = "done" /\ ~speakerFailed
    /\ tasks[executivePromise].action = "interrupt"
    /\ \E i \in InterruptionIdx :
          ~res[i].g.final /\ res[i].g.at < Len(llmStream)

\* C4: streaming without JSON mode: the forwarded Speaker content is the
\* accumulated Speaker output, less the chunk being processed while the
\* iteration is suspended at the verdict poll.
C4_ForwardedIsSpeakerPrefix ==
    (stream /\ ~isJsonMode) =>
        IF pc = "race"
        THEN ForwardedFrom(1) \o llmStream[Len(llmStream)].content = speakerOutput
        ELSE ForwardedFrom(1) = speakerOutput

\* An interruption fired while a delta with content was being processed,
\* and that delta's chunk was forwarded after it.
C4_Witness ==
    /\ stream /\ ~isJsonMode
    /\ \E i \in InterruptionIdx :
          /\ ~res[i].g.final
          /\ i < Len(res)
          /\ IsSpeakerChunk(res[i + 1])
          /\ res[i + 1].content # << >>
          /\ res[i + 1].g.at = res[i].g.at

\* C5 (as stated): in a finished response every interruption chunk has a
\* Speaker chunk before it and a Speaker chunk after it.
C5_Original ==
    (stream /\ pc = "done") =>
        \A i \in InterruptionIdx :
            /\ \E j \in SpeakerIdx : j < i
            /\ \E j \in SpeakerIdx : j > i

\* C5 (amended): every interruption chunk comes from a settled verdict of
\* interrupt, is written after the role chunk and before the finish chunk and
\* [DONE]; one fired in the loop stands after the chunks of all
\* earlier deltas and before the chunk of the delta being processed and of all
\* later deltas; one from the final verdict stands after every Speaker chunk.
C5_InterruptionPlacement ==
    \A i \in InterruptionIdx :
        LET g == res[i].g IN
        /\ g.task \in 1..Len(tasks)
        /\ tasks[g.task].status = "fulfilled"
        /\ tasks[g.task].action = "interrupt"
        /\ \E j \in Written : j < i /\ res[j].role
        /\ \A j \in FinishIdx \cup DoneIdx : i < j
        /\ \A j \in SpeakerIdx :
              IF g.final THEN j < i ELSE (j < i <=> res[j].g.at < g.at)

\* An interruption fired in the loop with Speaker chunks on both sides.
C5_Witness ==
    \E i \in InterruptionIdx :
        /\ ~res[i].g.final
        /\ \E j \in SpeakerIdx : j < i
        /\ \E j \in SpeakerIdx : j > i

\* C6 (as stated): an iteration that reaches the verdict poll and whose delta
\* takes the accumulated length over a new multiple of the stride spawns an
\* evaluation of the accumulated output.
C6_ReevaluateOnCrossing ==
    [][ ( /\ pc = "loop" /\ pc' = "race"
          /\ StrLen(speakerOutput') \div REEVAL_STRIDE
               > StrLen(speakerOutput) \div REEVAL_STRIDE )
        => ( /\ Len(tasks') = Len(tasks) + 1
             /\ tasks'[Len(tasks')].speaker_output = speakerOutput' ) ]_vars

\* C7: whatever comes from an evaluation in a streaming response (a thinking
\* event, an interruption) comes from the evaluation that was the latest
\* spawned when it was written.
C7_OnlyLatestConsumed ==
    \A i \in Written :
        /\ res[i].g.task # 0 => res[i].g.task = res[i].g.spawned
        /\ res[i].thinking # 0 => res[i].thinking = res[i].g.spawned
        /\ \A j \in 1..Len(res[i].content) :
              res[i].content[j].k \in {"interruption", "debug_interruption"}
                 => res[i].content[j].id = res[i].g.spawned

\* A superseded evaluation came back with interrupt, the latest one was
\* consumed, and the finished response has no interruption.
C7_Witness ==
    /\ stream /\ pc = "done" /\ Len(tasks) >= 2
    /\ tasks[1].action = "interrupt"
    /\ InterruptionIdx = {}
    /\ \E i \in Written : res[i].g.task = Len(tasks)

\* C8: in a response that ended without a Speaker failure: with no
\* interruption from the loop, the latest evaluation has settled and
\* its verdict decides: interrupt gives exactly one interruption chunk, from
\* that evaluation, before the finish chunk, anything else gives none; with an
\* interruption from the loop, the final check wrote nothing.
C8_FinalVerdict ==
    (stream /\ pc = "done" /\ ~speakerFailed) =>
        LET t == Len(tasks)
            loopInt == { i \in InterruptionIdx : ~res[i].g.final }
            finalEv == { i \in Written : res[i].g.final /\ res[i].g.task # 0 }
        IN  IF loopInt = {}
            THEN /\ tasks[t].status # "pending"
                 /\ IF tasks[t].action = "interrupt"
                    THEN /\ Cardinality(InterruptionIdx) = 1
                         /\ \A i \in InterruptionIdx :
                               /\ res[i].g.final /\ res[i].g.task = t
                               /\ \A j \in FinishIdx : i < j
                    ELSE InterruptionIdx = {}
            ELSE finalEv = {}

C8_Witness ==
    /\ stream /\ pc = "done" /\ ~speakerFailed
    /\ Len(llmStream) > 0
    /\ \E i \in InterruptionIdx : res[i].g.final

C10_FailedExecutiveIsNone ==
    /\ \A t \in 1..Len(tasks) :
          tasks[t].outcome = "fail" =>
             /\ tasks[t].status = "fulfilled" /\ tasks[t].action = "none"
             /\ \A i \in Written : res[i].g.task # t /\ res[i].thinking # t
    /\ ErrorIdx # {} => speakerFailed
    /\ response.status = 500 => speakerFailed
    /\ (pc = "done" /\ ~speakerFailed /\ tasks[Len(tasks)].outcome = "fail") =>
          IF stream
          THEN /\ \A i \in InterruptionIdx : ~res[i].g.final
               /\ res[Len(res)].sentinel
               /\ res[Len(res) - 1].finish_reason = "stop"
               /\ res[Len(res) - 1].content = << >>
          ELSE /\ response.status = 200
               /\ ~HasPiece(response, "interruption")
               /\ response.thinking = 0

\* The evaluation awaited at the end failed and the request ended normally.
C10_Witness ==
    /\ pc = "done" /\ ~speakerFailed
    /\ stream /\ Len(llmStream) > 0
    /\ tasks[Len(tasks)].outcome = "fail"
    /\ InterruptionIdx = {}
    /\ res[Len(res)].sentinel

\* C11 (as stated): once the client has disconnected, an iteration of the
\* forward loop that starts afterwards consumes no Speaker chunk, spawns no
\* evaluation and writes nothing, and the end of the stream writes nothing.
C11_DisconnectCancels ==
    [][ (~clientConnected /\ pc = "loop")
        => ( /\ Len(llmStream') = Len(llmStream)
             /\ Len(tasks') = Len(tasks)
             /\ res' = res ) ]_vars

\* C12 (as stated): no updateKnowledgeGraph run is started by an evaluation
\* that has been superseded by a newer one.
C12_NoWritebackWhenSuperseded ==
    [][ \A t \in writing' \ writing : t >= executivePromise ]_vars

\* C13 (as stated): a streaming request does not outlive the timeout: when
\* the clock has gone past it, the response has been terminated.
C13_TimeoutBoundsRequest ==
    elapsed > TimeoutTicks => pc = "done"

\* C14 (as stated): no interruption chunk is written while a tool call is
\* in progress, i.e. between the chunks forwarded for two consecutive
\* Speaker deltas that both carry tool_call_chunks (the fragments of a tool
\* call the client is assembling).
C14_NoInterruptionDuringToolCall ==
    \A i \in InterruptionIdx :
        ~ \E j, k \in Written :
            /\ j < i /\ i < k
            /\ res[j].tool_calls /\ res[k].tool_calls
            /\ res[k].g.at = res[j].g.at + 1

\* C15 (as stated): when a streaming response has ended without an error,
\* its finish chunk says tool_calls if the last Speaker delta carried
\* tool_call_chunks, and stop otherwise.
C15_FinishReasonToolCalls ==
    (stream /\ writableEnded /\ ErrorIdx = {}) =>
        \A i \in FinishIdx :
            res[i].finish_reason =
                IF Len(llmStream) > 0 /\ llmStream[Len(llmStream)].tool_call_chunks
                THEN "tool_calls" ELSE "stop"

\* The chunks written with a non-empty delta.content.
ContentIdx == { i \in Written : res[i].content # << >> }

\* C16 (as stated): in JSON mode with streaming (DEBUG off), nothing with
\* content is written before the Speaker has ended, an error chunk apart;
\* and a response over Speaker output that ended without an error holds
\* exactly one chunk with content, the JSON chunk.
C16_JsonStreamingOneChunk ==
    (isJsonStreaming /\ ~DEBUG) =>
        /\ \A i \in ContentIdx \ ErrorIdx : res[i].g.final
        /\ (writableEnded /\ ErrorIdx = {} /\ jsonCollectedContent # << >>)
              => /\ Cardinality(ContentIdx) = 1
                 /\ \A i \in ContentIdx :
                       HasPiece(res[i], "json") \/ HasPiece(res[i], "json_error")

\* The evaluations whose interruption a non-streaming response carries.
AppliedInterruptions ==
    { response.content[j].id :
        j \in { n \in 1..Len(response.content) :
                   response.content[n].k = "interruption" } }

\* C17 (as stated): the evaluation whose verdict a non-streaming response
\* applies was started before the Speaker completed, i.e. it is the one in
\* flight when the handler is entered.
C17_Original ==
    (~stream /\ response.status = 200) =>
        \A t \in AppliedInterruptions : t = executivePromise

\* C17 (amended): the Speaker runs first; at its completion one evaluation
\* of the whole Speaker output is requested, and the response is composed
\* only when that evaluation has completed too, applying its verdict and
\* no other.  The evaluation in flight since before the Speaker started
\* runs concurrently with it but its verdict is not applied.
C17_AppliedEvaluation ==
    (~stream /\ response.status = 200) =>
        LET t == Len(tasks)
        IN  /\ t = executivePromise + 1
            /\ Len(llmStream) > 0
            /\ tasks[t].speaker_output = llmStream[Len(llmStream)].content
            /\ tasks[t].status = "fulfilled"
            /\ AppliedInterruptions =
                  IF tasks[t].action = "interrupt" THEN {t} ELSE {}

C17_Witness ==
    /\ ~stream /\ response.status = 200
    /\ tasks[executivePromise].status = "pending"
    /\ AppliedInterruptions # {}

\* C18 (as stated): in JSON mode the content of a non-streaming response is
\* one JSON text, nothing else.
C18_NonStreamingJsonParses ==
    (~stream /\ isJsonMode /\ response.status = 200) =>
        /\ Len(response.content) = 1
        /\ response.content[1].k \in {"json", "json_error", "debug_json"}

\* C19 (as stated): no two stored nodes have the same label and name.
C19_NameUniquePerKind ==
    \A m, n \in nodes : (m.label = n.label /\ m.name = n.name) => m.id = n.id

\* createNode was last called for a knowledge node without a summary.
KnowledgeWithoutSummary ==
    /\ lastCall.op = "createNode"
    /\ lastCall.nodeType = "knowledge" /\ lastCall.summary = ""

\* C20 (as stated): a createNode for a knowledge node without a summary
\* fails.
C20_Original ==
    KnowledgeWithoutSummary => lastResult.status = "error"

\* C20 (amended): a createNode for a knowledge node without a summary is
\* not rejected for it: the node is created with its name as its summary
\* (the call fails only when one of its relationship queries does, and the
\* node is there all the same); no stored Knowledge node is without a
\* summary.
C20_SummaryDefaultsToName ==
    /\ KnowledgeWithoutSummary =>
          /\ \E n \in nodes : /\ n.id = nextId - 1
                               /\ n.label = "Knowledge"
                               /\ n.name = lastCall.name
                               /\ n.summary = lastCall.name
          /\ lastResult.status = "ok" => lastResult.id = nextId - 1
          /\ lastResult.status = "error" => lastCall.belongsTo # << >>
    /\ \A n \in nodes : n.label = "Knowledge" => n.summary # ""

C20_Witness ==
    /\ KnowledgeWithoutSummary
    /\ lastResult.status = "ok"
    /\ \E n \in nodes : n.id = lastResult.id /\ n.summary = n.name

\* The last call was a search that returned rows.
SearchReturned == AfterSearch /\ lastResult.status = "ok"

\* C21 (as stated): every row a vectorSearch or a hybridSearch returns is
\* of a node (the source, for hybridSearch) that has an embedding.
C21_SearchReturnsEmbedded ==
    SearchReturned =>
        \A i \in 1..Len(lastResult.rows) :
            \E n \in nodes : n.id = lastResult.rows[i].id /\ n.emb # NoEmbedding

\* The index query of the last search threw.
LastIndexThrew ==
    IndexQueryThrows(Label(lastCall.nodeType), lastCall.indexFails)

\* The row lists the index query of the last search could give.
LastIndexRows ==
    IF lastCall.op = "vectorSearch"
    THEN VectorIndexRows(Graph, Label(lastCall.nodeType), lastCall.text,
                         lastCall.limit, lastCall.minSimilarity)
    ELSE HybridIndexRows(Graph, Label(lastCall.nodeType), lastCall.text,
                         lastCall.relationshipType, Label(lastCall.targetType),
                         lastCall.limit, lastCall.minSimilarity)

\* C25 (as stated): a search answers from the cosine scan or from the
\* unscored scan only when its index query failed.
C25_Original ==
    (SearchReturned /\ lastResult.path \in {"cosine", "scan"}) => LastIndexThrew

\* C25 (amended): the answer of a search comes from the index query when
\* that query ran and gave rows; from the cosine scan when the index query
\* failed or gave no row, and the cosine scan ran; from the unscored scan
\* (score 1.0) when the index query failed or gave no row and the cosine
\* scan failed.
C25_FallbackOrder ==
    SearchReturned =>
        LET indexEmpty == ~LastIndexThrew /\ << >> \in LastIndexRows
        IN  /\ lastResult.path \in {"index", "cosine", "scan"}
            /\ lastResult.path = "index" <=>
                  (~LastIndexThrew /\ ~indexEmpty)
            /\ lastResult.path = "index" =>
                  lastResult.rows # << >> /\ lastResult.rows \in LastIndexRows
            /\ lastResult.path = "cosine" <=>
                  ((LastIndexThrew \/ indexEmpty) /\ ~lastCall.cosineFails)
            /\ lastResult.path = "scan" =>
                  \A i \in 1..Len(lastResult.rows) : lastResult.rows[i].score = 100

C25_Witness ==
    /\ SearchReturned
    /\ lastResult.path = "cosine"
    /\ ~LastIndexThrew
    /\ lastResult.rows = << >>
    /\ nodes # {}

\* C26 (as stated): the rows of a vectorSearch come by descending score,
\* and rows of equal score by ascending id.
C26_RowsOrdered ==
    (SearchReturned /\ lastCall.op = "vectorSearch") =>
        \A i, j \in 1..Len(lastResult.rows) :
            i < j =>
                \/ lastResult.rows[i].score > lastResult.rows[j].score
                \/ /\ lastResult.rows[i].score = lastResult.rows[j].score
                   /\ lastResult.rows[i].id < lastResult.rows[j].id

\* The nodes the alterNode call now made addresses, by label and id.
Addressed(call) == MatchById(Graph, Label(call.nodeType), call.nodeId)

C27_DeleteUpdateExclusive ==
    [][ lastCall'.op = "alterNode"
        => /\ lastCall'.deleteNode => nodes' \subseteq nodes
           /\ (~lastCall'.deleteNode /\ lastCall'.fields.given)
                 => /\ { n.id : n \in nodes' } = { n.id : n \in nodes }
                    /\ edges' = edges
           /\ (~lastCall'.deleteNode /\ ~lastCall'.fields.given)
                 => /\ lastResult'.status = "error"
                    /\ nodes' = nodes /\ edges' = edges ]_vars

C27_Witness ==
    /\ lastCall.op = "alterNode"
    /\ lastCall.deleteNode /\ lastCall.fields.given /\ lastCall.fields.name # ""
    /\ lastResult.status = "ok"
    /\ lastCall.nodeId < nextId
    /\ \A n \in nodes : n.id # lastCall.nodeId

\* C29 (as stated): when alterNode has given a node a new name and
\* returned, the embedding stored on the node, if any, is that of its name.
C29_RenameReembeds ==
    (/\ lastCall.op = "alterNode" /\ ~lastCall.deleteNode
     /\ lastCall.fields.name # "" /\ lastResult.status = "ok")
        => \A n \in Addressed(lastCall) :
              n.emb = NoEmbedding \/ n.emb.text = n.name

\* The edges of es from the node childId to a node that parent names.
EdgesToParent(stored, es, childId, parent) ==
    { j \in 1..Len(es) :
        /\ es[j].src = childId /\ es[j].rel = "BELONGS_TO"
        /\ \E m \in stored : /\ m.id = es[j].dst
                              /\ m.label = Label(parent.type)
                              /\ m.name = parent.name }

\* C23 (as stated): a createNode call with parents either leaves the graph
\* as it was, or leaves the node with exactly one BELONGS_TO edge to each
\* parent listed.
C23_CreateAtomicWithEdges ==
    [][ (lastCall'.op = "createNode" /\ lastCall'.belongsTo # << >>)
        => \/ nodes' = nodes /\ edges' = edges
           \/ \A n \in nodes' \ nodes :
                 \A i \in 1..Len(lastCall'.belongsTo) :
                    Cardinality(EdgesToParent(nodes', edges', n.id,
                                              lastCall'.belongsTo[i])) = 1 ]_vars

\* C24 (as stated): every embedding stored on a node, and every vector
\* index of the schema, has the configured dimension.
C24_DimensionIsConfigured ==
    /\ \A n \in nodes : n.emb # NoEmbedding => n.emb.dim = embeddingDimension
    /\ \A o \in schema : o.kind = "vector" => o.dim = embeddingDimension

C30_WritebackLinksTopic ==
    \A n \in nodes :
        (n.label = "Knowledge" /\ n.summary = KnowledgeSummary)
            => \E i \in 1..Len(edges) :
                  /\ edges[i].src = n.id /\ edges[i].rel = "BELONGS_TO"
                  /\ \E t \in nodes : t.id = edges[i].dst /\ t.label = "Topic"

\* C32 (as stated): of the evaluations of one request, at most one has its
\* updateKnowledgeGraph running.
C32_WritebacksSerialized == Cardinality(writing) <= 1

\* C33 (as stated): every call of updateKnowledgeGraph stores a new
\* Knowledge node.
C33_WritebackCreatesKnowledge ==
    [][ lastCall'.op = "updateKnowledgeGraph"
        => \E n \in nodes' : /\ n.label = "Knowledge"
                             /\ \A m \in nodes : m.id # n.id ]_vars

\* C31: the answer the Speaker gets for an evaluation is the evaluation
\* decided at step 2, whether the writeback of step 3 went through or
\* failed.
C31_WritebackFailureSwallowed ==
    \A t \in 1..Len(tasks) :
        tasks[t].status # "pending"
            => \E r \in evaluations :
                  /\ r.task = t
                  /\ tasks[t].status = "fulfilled"
                  /\ tasks[t].action = r.evaluation

C31_Witness ==
    \E r \in evaluations :
        /\ r.writeback = "failed" /\ r.evaluation = "interrupt"
        /\ tasks[r.task].status = "fulfilled"
        /\ hasExecutiveInterrupted

\* The progress document of a thread that can be read back (a row with the
\* empty content reads as no document).
ProgressOf(d, th) == { p \in d.progress_documents : p.thread_id = th /\ p.content # "" }

\* C34 (as stated): when the row of a thread is deleted, no message and no
\* progress document of the thread stays stored.
C34_DeleteLeavesNothing ==
    [][ \A th \in ThreadIds :
          (HasThread(db, th) /\ ~HasThread(db', th))
              => MessagesOf(db', th) = {} /\ ProgressOf(db', th) = {} ]_vars

\* The rows of ms that are among the n last by position.
LastByPosition(ms, n) ==
    { m \in ms : Cardinality({ x \in ms : x.position > m.position }) < n }

\* C35 (as stated): a step that stores a new summary in a thread leaves the
\* thread as the summary followed by the preserved messages, the last
\* PRESERVE_MESSAGE_COUNT of before, in their order.
C35_SummaryThenPreserved ==
    [][ \A th \in ThreadIds :
          \A s \in MessagesOf(db', th) :
             (s.is_summary /\ s.id > db.seq)
                => LET preserved == LastByPosition(MessagesOf(db, th),
                                                   PRESERVE_MESSAGE_COUNT)
                       after == MessagesOf(db', th) \ {s}
                   IN  /\ { m.id : m \in after } = { m.id : m \in preserved }
                       /\ \A m \in after : s.position < m.position
                       /\ \A a, b \in preserved : \A x, y \in after :
                             (x.id = a.id /\ y.id = b.id /\ a.position < b.position)
                                => x.position < y.position ]_vars

\* C37 (as stated): the positions of the messages of a thread are 0..n-1,
\* each once.
C37_PositionsContiguous ==
    \A th \in ThreadIds :
        { m.position : m \in MessagesOf(db, th) }
            = 0..(Cardinality(MessagesOf(db, th)) - 1)

\* C38 (as stated): message_count of a thread is the number of its rows in
\* messages.
C38_CountMatchesRows ==
    \A t \in db.threads :
        t.message_count = Cardinality(MessagesOf(db, t.thread_id))

\* C36 (as stated, for the runs of the cleanup): a thread the cleanup
\* removes has not been accessed within the expiration time, and none of
\* its messages and no progress document of it stays stored.
C36_CleanupRemovesExpired ==
    [][ \A t \in db.threads :
          ~HasThread(db', t.thread_id)
              => /\ t.last_accessed < now - ExpirationTicks
                 /\ MessagesOf(db', t.thread_id) = {}
                 /\ ProgressOf(db', t.thread_id) = {} ]_vars

\* The rows the call c has inserted that are stored.
StoredOf(c) == { m \in db.messages : m.id \in c.inserted }

\* C39 (as stated): when the calls made have all ended, a call that threw
\* has none of its rows stored, and a call to addMessagesToThread that
\* returned has all of them stored unless a replacement was made on its
\* thread.
C39_CallsAtomic ==
    (\A i \in 1..Len(calls) : Finished(calls[i]))
        => \A i \in 1..Len(calls) :
              LET c == calls[i]
              IN  /\ c.status = "failed" => StoredOf(c) = {}
                  /\ (/\ c.status = "done" /\ c.op = "add"
                      /\ \A j \in 1..Len(calls) :
                            ~(calls[j].op = "replace" /\ calls[j].th = c.th))
                        => Cardinality(StoredOf(c)) = c.k

\* C40 (as stated): in the streaming branch of the bridge the [DONE] line
\* is written at most once, exactly once when the response has been ended,
\* and res.write is never called after res.end().
C40_DoneOnceNoLateWrite ==
    Streaming => /\ bridge.doneWrites <= 1
                 /\ bridge.writableEnded => bridge.doneWrites = 1
                 /\ ~bridge.wroteAfterEnd

====
